---- MODULE Spec2Model ----
(***************************************************************************)
(* A model of pto3-go: the path cache's bulk registration                  *)
(* (PathCache.CacheNewPaths), the observation and observation set codecs,  *)
(* the insertion of observations into observation sets, the raw metadata   *)
(* records and the raw data store's campaigns and data files.              *)
(*                                                                         *)
(* A Go string is a sequence of tokens (TLA+ strings): a number text is    *)
(* the sequence of its characters, an opaque text is one token.            *)
(***************************************************************************)
EXTENDS Integers, Sequences, FiniteSets, TLC

(***************************************************************************)
(* Bounds of the model.                                                    *)
(***************************************************************************)
MaxPaths == 2     \* distinct path strings offered to CacheNewPaths
MaxObs == 2       \* observations in one observation file, and rows inserted
MaxSetRows == 2   \* rows inserted into the observation sets table
MaxCalls == 2     \* calls of CacheNewPaths in one behaviour
MaxCondRows == 3
BufCap == 1       \* records the csv writer buffers before a Write flushes
PipeCap == 1      \* records the os pipe holds before a write blocks
MaxClock == 1     \* the last instant of the file system's clock
MaxWriters == 2   \* concurrent calls of WriteFileDataFromStream

PathNames == <<"pA", "pB", "pC", "pD", "pE">>
PathStrings == {<<PathNames[i]>> : i \in 1..MaxPaths}
Procs == {"proc1", "proc2"}   \* processes, each with its own PathCache

VARIABLES
    seq,      \* paths_id_seq: its last value (is_called is true once > 0)
    paths,    \* the paths table: rows [id, string], id the primary key
    cache,    \* cache[p][s]: the PathCache of process p (0: no entry)
    calls,    \* calls[k]: the k-th call of CacheNewPaths and its goroutine
    ncalls,   \* calls started so far
    obsdat,   \* the observations handed to WriteObservations
    wire,     \* the lines WriteObservations wrote
    readRes,  \* what ReadObservations returned for those lines
    rtRes,    \* rtRes[i]: obsdat[i] marshalled, then unmarshalled on its own
    cstage,   \* how far the codec run is
    conditions,  \* the conditions table: rows [id, name]
    condSeq,     \* conditions_id_seq
    setRows,     \* the observation_sets table: rows [id]
    setSeq,      \* observation_sets_id_seq
    obsRows,     \* the observations table
    obsSeq,      \* observations_id_seq
    setObjs,     \* the ObservationSet values in memory: [ID, count]
    posted,      \* the wire line the newest observation row was decoded from
    cio,         \* cio[k]: a call of Condition.InsertOnce and its Condition
    oset,     \* an ObservationSet in memory
    owire,    \* the JSON object last encoded from, or decoded into, oset
    ofrom,    \* the set owire was encoded from, while that is of interest
    oerr,     \* the error of the last decoding ("": nil)
    ostage,   \* what was done last with oset
    mdrec,    \* a RawMetadata record in memory, with its parent
    manswer,  \* manswer[inherit]: what the accessors of mdrec returned
    mdump,    \* the JSON object last dumped from mdrec
    mvalid,   \* what validate returned for mdrec
    mstage,   \* what was done last with mdrec
    dirs,     \* the campaign directories under the raw root
    campFile, \* campFile[c]: the campaign metadata file of directory c
    sidecar,  \* sidecar[<<c, name>>]: a file metadata file and its mtime
    dataFile, \* dataFile[path]: a data file's size and mtime
    clock,    \* the file system's time
    campaigns, \* RawDataStore.campaigns: the Campaign of each name
    wr,       \* wr[w]: a call of WriteFileDataFromStream
    last,     \* the last metadata or read call and what it returned
    opened,   \* <<c, path>>: campaign c opened or created the file at path
    th,       \* th[t]: the call goroutine t is in, and how far it is
    unl,      \* the caches as the last unloadMetadata found them
    rdsLock   \* RawDataStore.lock

pathVars == <<seq, paths, cache, calls, ncalls>>
cacheVars == <<cache, calls, ncalls>>
codecVars == <<obsdat, wire, readRes, rtRes, cstage>>
obsVars == <<conditions, condSeq, setRows, setSeq, obsRows, obsSeq, setObjs,
             posted, cio>>
setVars == <<oset, owire, ofrom, oerr, ostage>>
metaVars == <<mdrec, manswer, mdump, mvalid, mstage>>
rawVars == <<dirs, campFile, sidecar, dataFile, clock, campaigns, wr, last, opened>>
camVars == <<th, unl, rdsLock>>
vars == <<seq, paths, cache, calls, ncalls, obsdat, wire, readRes, rtRes, cstage,
          conditions, condSeq, setRows, setSeq, obsRows, obsSeq, setObjs,
          posted, cio, oset, owire, ofrom, oerr, ostage,
          mdrec, manswer, mdump, mvalid, mstage,
          dirs, campFile, sidecar, dataFile, clock, campaigns, wr, last, opened,
          th, unl, rdsLock>>
notPath == <<codecVars, obsVars, setVars, metaVars, rawVars, camVars>>
notCodec == <<pathVars, obsVars, setVars, metaVars, rawVars, camVars>>
notObs == <<cacheVars, codecVars, setVars, metaVars, rawVars, camVars>>
notSet == <<pathVars, codecVars, obsVars, metaVars, rawVars, camVars>>
notMeta == <<pathVars, codecVars, obsVars, setVars, rawVars, camVars>>
notRaw == <<pathVars, codecVars, obsVars, setVars, metaVars, camVars>>
notCam == <<pathVars, codecVars, obsVars, setVars, metaVars>>

(***************************************************************************)
(* fmt.Sprintf("%d", n) and strconv.Atoi, on token sequences.              *)
(***************************************************************************)
DigitChars == <<"0", "1", "2", "3", "4", "5", "6", "7", "8", "9">>

RECURSIVE Itoa(_)
Itoa(n) ==
    IF n < 0 THEN <<"-">> \o Itoa(0 - n)
    ELSE IF n < 10 THEN <<DigitChars[n + 1]>>
    ELSE Itoa(n \div 10) \o <<DigitChars[(n % 10) + 1]>>

IsDigit(c) == \E i \in 1..10 : DigitChars[i] = c
DigitVal(c) == (CHOOSE i \in 1..10 : DigitChars[i] = c) - 1

RECURSIVE DigitsVal(_)
DigitsVal(s) ==
    IF s = <<>> THEN 0
    ELSE DigitsVal(SubSeq(s, 1, Len(s) - 1)) * 10 + DigitVal(s[Len(s)])

Atoi(s) ==
    LET signed == Len(s) > 0 /\ s[1] \in {"-", "+"}
        body == IF signed THEN Tail(s) ELSE s
    IN  IF body # <<>> /\ \A i \in 1..Len(body) : IsDigit(body[i])
        THEN [ok |-> TRUE,
              v |-> IF signed /\ s[1] = "-" THEN 0 - DigitsVal(body) ELSE DigitsVal(body)]
        ELSE [ok |-> FALSE, v |-> 0]

(***************************************************************************)
(* The observation codec: Observation.MarshalJSON / UnmarshalJSON,         *)
(* WriteObservations / ReadObservations.                                   *)
(*                                                                         *)
(* A time.Time is an instant (sec) and a zone offset (off), both in ticks; *)
(* its RFC 3339 text is "T", the digits of the wall clock (sec + off) and  *)
(* the zone.  A JSON value is a number or a string.                        *)
(***************************************************************************)
ZoneTokens == <<"Z", "+01:00">>
ZoneOffsets == {0, 1}
ZoneTok(off) == ZoneTokens[off + 1]
ZeroTime == [sec |-> 0, off |-> 0]

\* a conversion that keeps the zone of the time
UTC_KeepZone(t) == t

\* t.UTC()
UTC(t) == [t EXCEPT !.off = 0]

\* t.Format(time.RFC3339)
FormatRFC3339(t) == <<"T">> \o Itoa(t.sec + t.off) \o <<ZoneTok(t.off)>>

\* time.Parse(time.RFC3339, s)
ParseRFC3339(s) ==
    LET wall == SubSeq(s, 2, Len(s) - 1)
        zone == s[Len(s)]
    IN  IF /\ Len(s) >= 3
           /\ s[1] = "T"
           /\ \E o \in ZoneOffsets : ZoneTok(o) = zone
           /\ \A i \in 1..Len(wall) : IsDigit(wall[i])
        THEN LET off == CHOOSE o \in ZoneOffsets : ZoneTok(o) = zone
             IN  [ok |-> TRUE, t |-> [sec |-> DigitsVal(wall) - off, off |-> off]]
        ELSE [ok |-> FALSE, t |-> ZeroTime]

JNum(n) == [num |-> TRUE, n |-> n, s |-> <<>>]
JStr(s) == [num |-> FALSE, n |-> 0, s |-> s]

RECURSIVE StripZeros(_)
StripZeros(d) ==
    IF Len(d) > 1 /\ d[Len(d)] = "0" THEN StripZeros(SubSeq(d, 1, Len(d) - 1)) ELSE d

\* fmt.Sprintf("%v", f) of a float64 holding an integer: the shortest %g,
\* which turns to the exponent form from an exponent of 6 on
FormatFloatG(n) ==
    LET sign == IF n < 0 THEN <<"-">> ELSE <<>>
        digits == Itoa(IF n < 0 THEN 0 - n ELSE n)
        exp == Len(digits) - 1
        mant == StripZeros(digits)
    IN  IF exp < 6 THEN sign \o digits
        ELSE sign \o <<mant[1]>>
                  \o (IF Len(mant) > 1 THEN <<".">> \o Tail(mant) ELSE <<>>)
                  \o <<"e", "+">>
                  \o (IF exp < 10 THEN <<"0">> ELSE <<>>) \o Itoa(exp)

\* AsString, on what json.Unmarshal puts into an interface{}: a float64 for
\* a JSON number, a string for a JSON string
AsString(v) == IF v.num THEN FormatFloatG(v.n) ELSE v.s

ZeroObs ==
    [ID |-> 0, SetID |-> 0, Start |-> ZeroTime, End |-> ZeroTime,
     PathID |-> 0, Path |-> [ID |-> 0, String |-> <<>>],
     ConditionID |-> 0, Condition |-> [ID |-> 0, Name |-> <<>>], Value |-> 0]

\* Observation.MarshalJSON: the JSON array json.Marshal writes
MarshalJSON(obs) ==
    LET jslice == <<JNum(obs.SetID),
                    JStr(FormatRFC3339(UTC(obs.Start))),
                    JStr(FormatRFC3339(UTC(obs.End))),
                    JStr(obs.Path.String),
                    JStr(obs.Condition.Name)>>
    IN  IF obs.Value # 0 THEN Append(jslice, JNum(obs.Value)) ELSE jslice

\* Observation.UnmarshalJSON of the JSON array b into the observation obs
UnmarshalJSON(b, obs) ==
    IF Len(b) < 5 THEN [err |-> TRUE, obs |-> obs]
    ELSE
      LET o1 == [obs EXCEPT !.ID = 0, !.SetID = Atoi(AsString(b[1])).v]
          st == ParseRFC3339(AsString(b[2]))
          o2 == [o1 EXCEPT !.Start = st.t]
          en == ParseRFC3339(AsString(b[3]))
          o3 == [o2 EXCEPT !.End = en.t]
          o4 == [o3 EXCEPT !.Path = [ID |-> 0, String |-> AsString(b[4])],
                           !.Condition = [ID |-> 0, Name |-> AsString(b[5])]]
      IN  IF ~st.ok THEN [err |-> TRUE, obs |-> o2]
          ELSE IF ~en.ok THEN [err |-> TRUE, obs |-> o3]
          ELSE IF Len(b) >= 6
               THEN LET val == Atoi(AsString(b[6]))
                    IN  [err |-> ~val.ok, obs |-> [o4 EXCEPT !.Value = val.v]]
               ELSE [err |-> FALSE, obs |-> o4]

\* WriteObservations: one marshalled line per observation
WriteObservations(od) == [i \in 1..Len(od) |-> MarshalJSON(od[i])]

\* the loop of ReadObservations from line i on: every line is unmarshalled
\* into the one variable obs, and a copy of it appended to out
RECURSIVE ReadLoop(_, _, _, _)
ReadLoop(lines, i, obs, out) ==
    IF i > Len(lines) THEN [err |-> FALSE, out |-> out]
    ELSE LET r == UnmarshalJSON(lines[i], obs)
         IN  IF r.err THEN [err |-> TRUE, out |-> <<>>]
             ELSE ReadLoop(lines, i + 1, r.obs, Append(out, r.obs))

ReadObservations(lines) == ReadLoop(lines, 1, ZeroObs, <<>>)

\* the observations of the model: zoned times, values around the exponent form
ObsTimes == {[sec |-> 3, off |-> 0], [sec |-> 4, off |-> 1]}
ObsPathStrings == {<<"pA">>, <<"pB">>}
ObsCondNames == {<<"cOK">>}
ObsValues == {0, 5, 1000000}
ObsSetIDs == {0, 31337}
Observations ==
    {[ZeroObs EXCEPT !.SetID = sid, !.Start = st, !.End = [sec |-> 5, off |-> 0],
                     !.Path = [ID |-> 0, String |-> ps],
                     !.Condition = [ID |-> 0, Name |-> cn], !.Value = v] :
        sid \in ObsSetIDs, st \in ObsTimes, ps \in ObsPathStrings,
        cn \in ObsCondNames, v \in ObsValues}

RECURSIVE SeqsUpTo(_, _)
SeqsUpTo(S, n) ==
    IF n = 0 THEN {<<>>}
    ELSE SeqsUpTo(S, n - 1) \cup
         {Append(q, x) : q \in {r \in SeqsUpTo(S, n - 1) : Len(r) = n - 1}, x \in S}

CodecIdle ==
    /\ obsdat = <<>>
    /\ wire = <<>>
    /\ readRes = [err |-> FALSE, out |-> <<>>]
    /\ rtRes = <<>>
    /\ cstage = "new"

CodecInit ==
    /\ obsdat \in SeqsUpTo(Observations, MaxObs)
    /\ wire = <<>>
    /\ readRes = [err |-> FALSE, out |-> <<>>]
    /\ rtRes = <<>>
    /\ cstage = "new"

\* WriteObservations(obsdat, out)
CodecWrite ==
    /\ cstage = "new"
    /\ wire' = WriteObservations(obsdat)
    /\ cstage' = "written"
    /\ UNCHANGED <<obsdat, readRes, rtRes>>
    /\ UNCHANGED notCodec

\* ReadObservations(in) on what was written
CodecRead ==
    /\ cstage = "written"
    /\ readRes' = ReadObservations(wire)
    /\ cstage' = "read"
    /\ UNCHANGED <<obsdat, wire, rtRes>>
    /\ UNCHANGED notCodec

\* json.Marshal then json.Unmarshal of the next observation, into a new value
CodecRoundTrip ==
    /\ Len(rtRes) < Len(obsdat)
    /\ rtRes' = Append(rtRes, UnmarshalJSON(MarshalJSON(obsdat[Len(rtRes) + 1]), ZeroObs))
    /\ UNCHANGED <<obsdat, wire, readRes, cstage>>
    /\ UNCHANGED notCodec

CodecNext ==
    \/ CodecWrite
    \/ CodecRead
    \/ CodecRoundTrip


(***************************************************************************)
(* The observation set codec: ObservationSet.MarshalJSON / UnmarshalJSON.  *)
(*                                                                         *)
(* A JSON object is a function from its keys to JSON values; a value here  *)
(* is null, a scalar (number or string) or an array of scalars.  A key is  *)
(* a token sequence, so that its prefix can be looked at.                  *)
(***************************************************************************)
JScalar(v) == [kind |-> "scalar", v |-> v, items |-> <<>>]
JArr(items) == [kind |-> "array", v |-> JStr(<<>>), items |-> items]
JNull == [kind |-> "null", v |-> JStr(<<>>), items |-> <<>>]

\* strings.HasPrefix(k, p)
HasPrefix(k, p) == Len(k) >= Len(p) /\ SubSeq(k, 1, Len(p)) = p

K_sources == <<"_", "sources">>
K_analyzer == <<"_", "analyzer">>
K_link == <<"_", "_", "link">>
K_data == <<"_", "_", "data">>
K_obs_count == <<"_", "_", "obs_count">>
K_conditions == <<"_", "conditions">>
K_description == <<"description">>

\* a []string: nil, or its elements
NilStrings == [nil |-> TRUE, items |-> <<>>]
Strings(items) == [nil |-> FALSE, items |-> items]

EmptyMap == [k \in {} |-> <<>>]

\* jmap[k] = v
MapPut(m, k, v) == [x \in DOMAIN m \cup {k} |-> IF x = k THEN v ELSE m[x]]

\* the elements of a []interface{} as %v prints them, a space between two
RECURSIVE JoinItems(_)
JoinItems(items) ==
    IF items = <<>> THEN <<>>
    ELSE IF Len(items) = 1 THEN AsString(items[1])
    ELSE AsString(items[1]) \o <<" ">> \o JoinItems(Tail(items))

\* AsString on a value of the set object: fmt's %v of nil and of a slice
AsStringAny(v) ==
    IF v.kind = "scalar" THEN AsString(v.v)
    ELSE IF v.kind = "null" THEN <<"<nil>">>
    ELSE <<"[">> \o JoinItems(v.items) \o <<"]">>

\* AsStringArray
AsStringArray(v) ==
    IF v.kind = "scalar" /\ ~v.v.num THEN [ok |-> TRUE, v |-> Strings(<<v.v.s>>)]
    ELSE IF v.kind = "array"
    THEN [ok |-> TRUE, v |-> Strings([i \in 1..Len(v.items) |-> AsString(v.items[i])])]
    ELSE [ok |-> FALSE, v |-> NilStrings]

\* the zero ObservationSet
ZeroSet ==
    [ID |-> 0, Sources |-> NilStrings, Analyzer |-> <<>>, Metadata |-> EmptyMap,
     datalink |-> <<>>, link |-> <<>>, count |-> 0]

\* an encoder that leaves the extension metadata out
SetMarshalJSON_NoMetadata(set) ==
    LET j1 == MapPut(EmptyMap, K_sources,
                     IF set.Sources.nil THEN JNull
                     ELSE JArr([i \in 1..Len(set.Sources.items) |->
                                    JStr(set.Sources.items[i])]))
    IN  MapPut(j1, K_analyzer, JScalar(JStr(set.Analyzer)))

\* ObservationSet.MarshalJSON: the object json.Marshal writes for jmap
SetMarshalJSON(set) ==
    LET j1 == MapPut(EmptyMap, K_sources,
                     IF set.Sources.nil THEN JNull
                     ELSE JArr([i \in 1..Len(set.Sources.items) |->
                                    JStr(set.Sources.items[i])]))
        j2 == MapPut(j1, K_analyzer, JScalar(JStr(set.Analyzer)))
        j3 == IF set.link # <<>> THEN MapPut(j2, K_link, JScalar(JStr(set.link)))
              ELSE j2
        j4 == IF set.datalink # <<>>
              THEN MapPut(j3, K_data, JScalar(JStr(set.datalink))) ELSE j3
        j5 == IF set.count # 0
              THEN MapPut(j4, K_obs_count, JScalar(JNum(set.count))) ELSE j4
    IN  [k \in DOMAIN j5 \cup DOMAIN set.Metadata |->
            IF k \in DOMAIN set.Metadata THEN JScalar(JStr(set.Metadata[k]))
            ELSE j5[k]]

\* ObservationSet.UnmarshalJSON into set, of an input that is a JSON object.
\* The keys are visited in the map's order; when _sources is not an array
\* the fields of the other keys are set or not, and here they are not.
SetUnmarshalJSON(jmap, set) ==
    LET s0 == [set EXCEPT !.Metadata = EmptyMap, !.ID = 0]
        srcs == IF K_sources \in DOMAIN jmap THEN AsStringArray(jmap[K_sources])
                ELSE [ok |-> TRUE, v |-> s0.Sources]
        extra == {k \in DOMAIN jmap :
                     /\ k # K_sources
                     /\ k # K_analyzer
                     /\ ~HasPrefix(k, <<"_", "_">>)}
        s1 == [s0 EXCEPT
                 !.Sources = srcs.v,
                 !.Analyzer = IF K_analyzer \in DOMAIN jmap
                              THEN AsStringAny(jmap[K_analyzer]) ELSE @,
                 !.Metadata = [k \in extra |-> AsStringAny(jmap[k])]]
    IN  IF ~srcs.ok THEN [err |-> "_sources not a string array", set |-> s0]
        ELSE IF s1.Sources.nil THEN [err |-> "missing _sources", set |-> s1]
        ELSE IF s1.Analyzer = <<>> THEN [err |-> "missing _analyzer", set |-> s1]
        ELSE [err |-> "", set |-> s1]

\* the sets and the input objects of the model
MetaKeys == {K_description, K_conditions, K_link, K_sources}
SetSources == {NilStrings, Strings(<<>>), Strings(<<<<"src1">>>>)}
SetAnalyzers == {<<>>, <<"an1">>}
SetLinks == {<<>>, <<"http://pto/obs/1">>}
SetCounts == {0, 3}
MapsOver(keys, val) == UNION {[ks -> {val}] : ks \in SUBSET keys}
ObservationSets ==
    {[ID |-> id, Sources |-> s, Analyzer |-> a, Metadata |-> m,
      datalink |-> <<>>, link |-> l, count |-> c] :
        id \in {0, 7}, s \in SetSources, a \in SetAnalyzers,
        m \in MapsOver(MetaKeys, <<"text">>), l \in SetLinks, c \in SetCounts}
InputKeys == {K_sources, K_analyzer, K_link, K_conditions, K_description}
InputValue(k) ==
    IF k = K_sources THEN JArr(<<JStr(<<"src2">>)>>)
    ELSE IF k = K_analyzer THEN JScalar(JStr(<<"an2">>))
    ELSE IF k = K_conditions THEN JArr(<<JStr(<<"cOK">>)>>)
    ELSE JScalar(JStr(<<"given">>))
SetInputs == {[k \in ks |-> InputValue(k)] : ks \in SUBSET InputKeys}

SetIdle ==
    /\ oset = ZeroSet
    /\ owire = EmptyMap
    /\ ofrom = ZeroSet
    /\ oerr = ""
    /\ ostage = "new"

SetInit ==
    /\ oset \in ObservationSets
    /\ owire = EmptyMap
    /\ ofrom = ZeroSet
    /\ oerr = ""
    /\ ostage = "new"

\* b, _ := set.MarshalJSON()
SetEncode ==
    /\ owire' = SetMarshalJSON(oset)
    /\ ofrom' = oset
    /\ ostage' = "encoded"
    /\ UNCHANGED <<oset, oerr>>
    /\ UNCHANGED notSet

\* err := target.UnmarshalJSON(b) of the bytes just encoded, into the set
\* they came from or into a new one
SetDecode(fresh) ==
    /\ ostage = "encoded"
    /\ LET target == IF fresh THEN ZeroSet ELSE oset
           res == SetUnmarshalJSON(owire, target)
       IN  /\ oset' = res.set
           /\ oerr' = res.err
    /\ ostage' = "decoded"
    /\ UNCHANGED <<owire, ofrom>>
    /\ UNCHANGED notSet

\* err := set.UnmarshalJSON(b) of an object a client sent
SetParse(jmap) ==
    /\ LET res == SetUnmarshalJSON(jmap, oset)
       IN  /\ oset' = res.set
           /\ oerr' = res.err
    /\ owire' = jmap
    /\ ofrom' = ZeroSet
    /\ ostage' = "parsed"
    /\ UNCHANGED notSet

SetNext ==
    \/ SetEncode
    \/ \E fresh \in BOOLEAN : SetDecode(fresh)
    \/ \E jmap \in SetInputs : SetParse(jmap)

(***************************************************************************)
(* Raw metadata records: RawMetadata and its accessors.                    *)
(*                                                                         *)
(* A pointer is a sequence: <<>> is nil, <<x>> points at x.  The parent of *)
(* a file record is the campaign record; nobody writes to a campaign       *)
(* record once it is stored, so the record stands for the pointer to it.   *)
(***************************************************************************)
K_file_type == <<"_", "file_type">>
K_owner == <<"_", "owner">>
K_time_start == <<"_", "time_start">>
K_time_end == <<"_", "time_end">>
K_data_size == <<"_", "_", "data_size">>
K_created == <<"_", "_", "created">>
K_modified == <<"_", "_", "modified">>

\* the zero RawMetadata
ZeroMD ==
    [Parent |-> <<>>, filetype |-> <<>>, owner |-> <<>>, timeStart |-> <<>>,
     timeEnd |-> <<>>, Metadata |-> EmptyMap, datalink |-> <<>>, datasize |-> 0,
     creatime |-> <<>>, modtime |-> <<>>]

\* md.Metadata[k]: the zero string for a missing key
MapGet(m, k) == IF k \in DOMAIN m THEN m[k] ELSE <<>>

\* RawMetadata.Keys
Keys(md, inherit) ==
    {k \in DOMAIN md.Metadata : ~HasPrefix(k, <<"_", "_">>)}
    \cup (IF inherit /\ md.Parent # <<>>
          THEN {k \in DOMAIN md.Parent[1].Metadata : ~HasPrefix(k, <<"_", "_">>)}
          ELSE {})

\* RawMetadata.Filetype
Filetype(md, inherit) ==
    IF md.filetype = <<>> /\ inherit /\ md.Parent # <<>>
    THEN md.Parent[1].filetype ELSE md.filetype

\* an accessor that never looks at the parent
Owner_LocalOnly(md, inherit) == md.owner

\* RawMetadata.Owner
Owner(md, inherit) ==
    IF md.owner = <<>> /\ inherit /\ md.Parent # <<>>
    THEN md.Parent[1].owner ELSE md.owner

\* RawMetadata.TimeStart
TimeStart(md, inherit) ==
    IF md.timeStart = <<>> /\ inherit /\ md.Parent # <<>>
    THEN md.Parent[1].timeStart ELSE md.timeStart

\* RawMetadata.TimeEnd
TimeEnd(md, inherit) ==
    IF md.timeEnd = <<>> /\ inherit /\ md.Parent # <<>>
    THEN md.Parent[1].timeEnd ELSE md.timeEnd

\* RawMetadata.Get
Get(md, k, inherit) ==
    LET out == MapGet(md.Metadata, k)
    IN  IF out = <<>> /\ inherit /\ md.Parent # <<>>
        THEN MapGet(md.Parent[1].Metadata, k) ELSE out

\* RawMetadata.DumpJSONObject: the object json.Marshal writes for jmap
DumpJSONObject(md, inherit) ==
    LET ft == Filetype(md, inherit)
        ow == Owner(md, inherit)
        ts == TimeStart(md, inherit)
        te == TimeEnd(md, inherit)
        j1 == IF ft # <<>> THEN MapPut(EmptyMap, K_file_type, JScalar(JStr(ft)))
              ELSE EmptyMap
        j2 == IF ow # <<>> THEN MapPut(j1, K_owner, JScalar(JStr(ow))) ELSE j1
        j3 == IF ts # <<>>
              THEN MapPut(j2, K_time_start, JScalar(JStr(FormatRFC3339(ts[1]))))
              ELSE j2
        j4 == IF te # <<>>
              THEN MapPut(j3, K_time_end, JScalar(JStr(FormatRFC3339(te[1]))))
              ELSE j3
        j5 == IF md.datalink # <<>>
              THEN MapPut(j4, K_data, JScalar(JStr(md.datalink))) ELSE j4
        j6 == IF md.datasize # 0
              THEN MapPut(j5, K_data_size, JScalar(JNum(md.datasize))) ELSE j5
        j7 == IF md.creatime # <<>>
              THEN MapPut(j6, K_created, JScalar(JStr(FormatRFC3339(md.creatime[1]))))
              ELSE j6
        j8 == IF md.modtime # <<>>
              THEN MapPut(j7, K_modified, JScalar(JStr(FormatRFC3339(md.modtime[1]))))
              ELSE j7
        ks == Keys(md, inherit)
    IN  [k \in DOMAIN j8 \cup ks |->
            IF k \in ks THEN JScalar(JStr(Get(md, k, inherit))) ELSE j8[k]]

\* a validation that asks for nothing
validate_Lenient(md, isCampaign) == <<>>

\* RawMetadata.validate: the key of the PTOMissingMetadataError, <<>> for nil
validate(md, isCampaign) ==
    IF Owner(md, TRUE) = <<>> THEN K_owner
    ELSE IF isCampaign THEN <<>>
    ELSE IF Filetype(md, TRUE) = <<>> THEN K_file_type
    ELSE IF TimeStart(md, TRUE) = <<>> THEN K_time_start
    ELSE IF TimeEnd(md, TRUE) = <<>> THEN K_time_end
    ELSE <<>>

\* the records of the model: what a client's object leaves in a record
K_ext == <<"ext">>
LocalRecords(tag) ==
    {[ZeroMD EXCEPT !.filetype = ft, !.owner = ow, !.timeStart = ts,
                    !.timeEnd = te, !.Metadata = m] :
        ft \in {<<>>, <<"type", tag>>},
        ow \in {<<>>, <<"owner", tag>>},
        ts \in {<<>>, <<[sec |-> 3, off |-> 1]>>},
        te \in {<<>>, <<[sec |-> 5, off |-> 0]>>},
        m \in MapsOver({K_ext}, <<"text", tag>>) \cup {[k \in {K_ext} |-> <<>>]}}
CampaignRecords == LocalRecords("c")
FileRecords ==
    {[md EXCEPT !.Parent = par] :
        md \in LocalRecords("f"), par \in {<<>>} \cup {<<p>> : p \in CampaignRecords}}

NoAnswers ==
    [inherit \in BOOLEAN |->
        [filetype |-> <<>>, owner |-> <<>>, timeStart |-> <<>>, timeEnd |-> <<>>,
         ext |-> <<>>]]

MetaIdle ==
    /\ mdrec = ZeroMD
    /\ manswer = NoAnswers
    /\ mdump = EmptyMap
    /\ mvalid = <<>>
    /\ mstage = "new"

MetaInit ==
    /\ mdrec \in FileRecords
    /\ manswer = NoAnswers
    /\ mdump = EmptyMap
    /\ mvalid = <<>>
    /\ mstage = "new"

\* the accessors, called with and without inheritance
MetaAsk ==
    /\ mstage = "new"
    /\ manswer' = [inherit \in BOOLEAN |->
                      [filetype |-> Filetype(mdrec, inherit),
                       owner |-> Owner(mdrec, inherit),
                       timeStart |-> TimeStart(mdrec, inherit),
                       timeEnd |-> TimeEnd(mdrec, inherit),
                       ext |-> Get(mdrec, K_ext, inherit)]]
    /\ mstage' = "asked"
    /\ UNCHANGED <<mdrec, mdump, mvalid>>
    /\ UNCHANGED notMeta

\* md.DumpJSONObject(inherit)
MetaDump(inherit) ==
    /\ mstage = "asked"
    /\ mdump' = DumpJSONObject(mdrec, inherit)
    /\ mstage' = IF inherit THEN "dumpedAll" ELSE "dumpedLocal"
    /\ UNCHANGED <<mdrec, manswer, mvalid>>
    /\ UNCHANGED notMeta

\* md.validate(isCampaign)
MetaValidate(isCampaign) ==
    /\ mstage = "asked"
    /\ mvalid' = validate(mdrec, isCampaign)
    /\ mstage' = IF isCampaign THEN "validatedCampaign" ELSE "validatedFile"
    /\ UNCHANGED <<mdrec, manswer, mdump>>
    /\ UNCHANGED notMeta

MetaNext ==
    \/ MetaAsk
    \/ \E inherit \in BOOLEAN : MetaDump(inherit)
    \/ \E isCampaign \in BOOLEAN : MetaValidate(isCampaign)

(***************************************************************************)
(* The raw data store: RawDataStore.CreateCampaign, Campaign.              *)
(* PutFileMetadata, ReadFileData and WriteFileDataFromStream, on a file    *)
(* system.                                                                 *)
(*                                                                         *)
(* A path is the sequence of its components and a component the sequence   *)
(* of its characters; a file name handed to the store is a string with     *)
(* separators, given here already split at them.                           *)
(***************************************************************************)
RawRoot == << <<"r">> >>
DotDot == <<".", ".">>
Dot == <<".">>
Star == <<"*">>

\* filepath.Clean(filepath.Join(dir, name)), dir being clean and absolute
RECURSIVE CleanJoin(_, _)
CleanJoin(dir, name) ==
    IF name = <<>> THEN dir
    ELSE IF name[1] = Dot \/ name[1] = <<>> THEN CleanJoin(dir, Tail(name))
    ELSE IF name[1] = DotDot
    THEN CleanJoin(IF dir = <<>> THEN dir ELSE SubSeq(dir, 1, Len(dir) - 1),
                   Tail(name))
    ELSE CleanJoin(Append(dir, name[1]), Tail(name))

\* filepath.Match within one component: * is any run of characters
RECURSIVE MatchChars(_, _)
MatchChars(pat, str) ==
    IF pat = <<>> THEN str = <<>>
    ELSE IF pat[1] = "*"
    THEN \E i \in 0..Len(str) : MatchChars(Tail(pat), SubSeq(str, i + 1, Len(str)))
    ELSE /\ str # <<>>
         /\ pat[1] = str[1]
         /\ MatchChars(Tail(pat), Tail(str))

\* filepath.Match(pattern, path): no * runs over a separator
Match(pattern, path) ==
    /\ Len(pattern) = Len(path)
    /\ \A i \in 1..Len(pattern) : MatchChars(pattern[i], path[i])

\* a check that lets every path through
PathOK_Always(campath, rawpath) == TRUE

\* the test ReadFileData and WriteFileData make on the cleaned path
PathOK(campath, rawpath) == Match(Append(campath, Star), rawpath)

CampNames == {<<"c", "x">>, <<"c", "*">>}
StoredName == << <<"f">> >>
FileNames == {StoredName,
              <<DotDot, <<"s">>>>,
              <<DotDot, <<"c", "x">>, <<"f">>>>}
Writers == 1..MaxWriters
CamPath(c) == Append(RawRoot, c)
FileTime(t) == <<[sec |-> t, off |-> 0]>>

Err(kind, key) == [kind |-> kind, key |-> key]
NoErr == Err("nil", <<>>)
PTOMissingMetadataError(key) == Err("MissingField", key)

\* what writeToFile leaves in a metadata file, as a later read takes it: the
\* keys with a __ prefix are written and then ignored
Persisted(md) ==
    [ZeroMD EXCEPT !.filetype = md.filetype, !.owner = md.owner,
                   !.timeStart = md.timeStart, !.timeEnd = md.timeEnd,
                   !.Metadata = [k \in Keys(md, FALSE) |-> md.Metadata[k]]]

\* RawMetadataFromFile(pathname, parent)
RawMetadataFromFile(content, parent) == [content EXCEPT !.Parent = parent]

RawOwnerOnly == [ZeroMD EXCEPT !.owner = <<"owner">>]
RawTypeOnly == [ZeroMD EXCEPT !.filetype = <<"type">>]
\* the records clients hand in: for a campaign, for a file
RawCampaignRecords == {ZeroMD, RawOwnerOnly}
RawFileRecords == {ZeroMD, RawTypeOnly}

\* sync.RWMutex: the goroutine that holds it for writing (<<>>: none) and
\* those that hold it for reading
NoLock == [w |-> <<>>, r |-> {}]
\* a Lock that does not wait for anyone
CanLock_Always(l) == TRUE
CanLock(l) == l.w = <<>> /\ l.r = {}
CanRLock(l) == l.w = <<>>

\* newCampaign(config, name, nil): a stale Campaign with an empty map of
\* file records (isnil: the map is nil)
newCampaign(c) ==
    [path |-> CamPath(c), stale |-> TRUE, campaignMetadata |-> <<>>,
     fileMetadata |-> EmptyMap, isnil |-> FALSE, lock |-> NoLock]

Goroutines == {"g1", "g2"}
Holder(t) == <<"g", t>>

NoCamCall ==
    [op |-> "none", pc |-> "idle", cam |-> <<>>, name |-> <<>>, md |-> ZeroMD,
     err |-> NoErr, own |-> <<>>]
NoUnload == [loaded |-> FALSE, campaignMetadata |-> <<>>, names |-> {}]

NoWrite ==
    [pc |-> "idle", cam |-> <<>>, name |-> <<>>, force |-> FALSE, n |-> 0,
     rawpath |-> <<>>, err |-> NoErr]
NoOp ==
    [op |-> "none", cam |-> <<>>, name |-> <<>>, md |-> ZeroMD, err |-> NoErr,
     changed |-> FALSE]

\* NewRawDataStore on an empty root directory
RawInit ==
    /\ dirs = {}
    /\ campFile = EmptyMap
    /\ sidecar = EmptyMap
    /\ dataFile = EmptyMap
    /\ clock = 0
    /\ campaigns = EmptyMap
    /\ wr = [w \in Writers |-> NoWrite]
    /\ last = NoOp
    /\ opened = {}
    /\ th = [t \in Goroutines |-> NoCamCall]
    /\ unl = NoUnload
    /\ rdsLock = NoLock

\* a recomputation that takes the creation time from the data file only
updateFileVirtualMetadata_DataOnly(c, name, md, datafiles, sidecars) ==
    LET datapath == CleanJoin(CamPath(c), name)
        md1 == IF datapath \in DOMAIN datafiles
               THEN [md EXCEPT !.datasize = datafiles[datapath].size,
                               !.creatime = FileTime(datafiles[datapath].mtime)]
               ELSE [md EXCEPT !.datasize = 0, !.creatime = <<>>]
    IN  IF <<c, name>> \in DOMAIN sidecars
        THEN [err |-> NoErr,
              md |-> [md1 EXCEPT !.modtime = FileTime(sidecars[<<c, name>>].mtime),
                                 !.datalink = <<"data">>]]
        ELSE [err |-> Err("NotExist", <<>>), md |-> md1]

\* Campaign.updateFileVirtualMetadata, on the record md of the file and
\* the data files and sidecars on the disk.  When the sidecar cannot be
\* stat'ed the record keeps the size and creation time already filled in
updateFileVirtualMetadata(c, name, md, datafiles, sidecars) ==
    LET datapath == CleanJoin(CamPath(c), name)
        md1 == IF datapath \in DOMAIN datafiles
               THEN [md EXCEPT !.datasize = datafiles[datapath].size,
                               !.creatime = FileTime(datafiles[datapath].mtime)]
               ELSE [md EXCEPT !.datasize = 0, !.creatime = <<>>]
        metatime == FileTime(sidecars[<<c, name>>].mtime)
        md2 == IF md1.creatime = <<>>
               THEN [md1 EXCEPT !.modtime = metatime, !.creatime = metatime]
               ELSE IF md1.creatime[1].sec > metatime[1].sec
               THEN [md1 EXCEPT !.modtime = md1.creatime]
               ELSE [md1 EXCEPT !.modtime = metatime]
    IN  IF <<c, name>> \in DOMAIN sidecars
        THEN [err |-> NoErr, md |-> [md2 EXCEPT !.datalink = <<"data">>]]
        ELSE [err |-> Err("NotExist", <<>>), md |-> md1]

\* Campaign.reloadMetadata(true) in a directory that has its metadata file:
\* the campaign record and one record per sidecar, each with its virtuals
reloadMetadata(c, cam, cfile) ==
    LET cmd == RawMetadataFromFile(cfile, <<>>)
        names == {name \in FileNames : <<c, name>> \in DOMAIN sidecar}
    IN  [cam EXCEPT
           !.stale = FALSE,
           !.campaignMetadata = <<cmd>>,
           !.fileMetadata =
               [name \in DOMAIN cam.fileMetadata \cup names |->
                   IF name \in names
                   THEN updateFileVirtualMetadata(c, name,
                            RawMetadataFromFile(sidecar[<<c, name>>].md, <<cmd>>),
                            dataFile, sidecar).md
                   ELSE cam.fileMetadata[name]]]

\* the file system's clock moves on
Tick ==
    /\ clock < MaxClock
    /\ clock' = clock + 1
    /\ UNCHANGED <<dirs, campFile, sidecar, dataFile, campaigns, wr, last, opened>>
    /\ UNCHANGED notRaw

\* RawDataStore.CreateCampaign(c, md): newCampaign, PutCampaignMetadata and
\* the entry in the campaign cache
CreateCampaign(c, md) ==
    /\ \/ /\ validate(md, TRUE) # <<>>
          /\ last' = [op |-> "CreateCampaign", cam |-> c, name |-> <<>>, md |-> md,
                      err |-> PTOMissingMetadataError(validate(md, TRUE)),
                      changed |-> FALSE]
          /\ UNCHANGED <<dirs, campFile, campaigns>>
       \/ /\ validate(md, TRUE) = <<>>
          /\ c \in dirs
          /\ last' = [op |-> "CreateCampaign", cam |-> c, name |-> <<>>, md |-> md,
                      err |-> Err("Exists", c), changed |-> FALSE]
          /\ UNCHANGED <<dirs, campFile, campaigns>>
       \/ /\ validate(md, TRUE) = <<>>
          /\ c \notin dirs
          /\ dirs' = dirs \cup {c}
          /\ campFile' = MapPut(campFile, c, Persisted(md))
          /\ LET cam0 == newCampaign(c)
                 cam1 == reloadMetadata(c, cam0, Persisted(md))
             IN  campaigns' = MapPut(campaigns, c,
                                     [cam1 EXCEPT !.campaignMetadata = <<md>>])
          /\ last' = [op |-> "CreateCampaign", cam |-> c, name |-> <<>>, md |-> md,
                      err |-> NoErr, changed |-> TRUE]
    /\ UNCHANGED <<sidecar, dataFile, clock, wr, opened>>
    /\ UNCHANGED notRaw

\* Campaign.PutFileMetadata(name, md) on a loaded campaign
PutFileMetadata(c, name, md) ==
    /\ c \in DOMAIN campaigns
    /\ ~campaigns[c].stale
    /\ LET cam == campaigns[c]
           md1 == [md EXCEPT !.Parent = cam.campaignMetadata]
       IN  \/ /\ Filetype(md1, TRUE) = <<>>
              /\ last' = [op |-> "PutFileMetadata", cam |-> c, name |-> name,
                          md |-> ZeroMD, err |-> PTOMissingMetadataError(K_file_type),
                          changed |-> FALSE]
              /\ UNCHANGED <<sidecar, campaigns>>
           \/ /\ Filetype(md1, TRUE) # <<>>
              /\ LET written == MapPut(sidecar, <<c, name>>,
                                       [md |-> Persisted(md1), mtime |-> clock])
                     res == updateFileVirtualMetadata(c, name, md1, dataFile, written)
                 IN  /\ sidecar' = written
                     /\ campaigns' =
                            [campaigns EXCEPT ![c].fileMetadata = MapPut(@, name, res.md)]
                     /\ last' = [op |-> "PutFileMetadata", cam |-> c, name |-> name,
                                 md |-> ZeroMD, err |-> res.err, changed |-> TRUE]
    /\ UNCHANGED <<dirs, campFile, dataFile, clock, wr, opened>>
    /\ UNCHANGED notRaw

\* Campaign.ReadFileData(name)
ReadFileData(c, name) ==
    /\ c \in DOMAIN campaigns
    /\ LET rawpath == CleanJoin(campaigns[c].path, name)
       IN  IF ~PathOK(campaigns[c].path, rawpath)
           THEN /\ last' = [op |-> "ReadFileData", cam |-> c, name |-> name,
                            md |-> ZeroMD, err |-> Err("Internal", <<>>),
                            changed |-> FALSE]
                /\ UNCHANGED opened
           ELSE IF rawpath \in DOMAIN dataFile
           THEN /\ last' = [op |-> "ReadFileData", cam |-> c, name |-> name,
                            md |-> ZeroMD, err |-> NoErr, changed |-> FALSE]
                /\ opened' = opened \cup {<<c, rawpath>>}
           ELSE /\ last' = [op |-> "ReadFileData", cam |-> c, name |-> name,
                            md |-> ZeroMD, err |-> Err("NotExist", <<>>),
                            changed |-> FALSE]
                /\ UNCHANGED opened
    /\ UNCHANGED <<dirs, campFile, sidecar, dataFile, clock, campaigns, wr>>
    /\ UNCHANGED notRaw

\* WriteFileDataFromStream(name, force, in) begins: WriteFileData builds and
\* tests the path.  Writer w has w bytes to copy.
WriteBegin(w, c, name, force) ==
    /\ wr[w].pc = "idle"
    /\ c \in DOMAIN campaigns
    /\ LET rawpath == CleanJoin(campaigns[c].path, name)
           call == [NoWrite EXCEPT !.cam = c, !.name = name, !.force = force,
                                   !.n = w, !.rawpath = rawpath]
       IN  wr' = [wr EXCEPT ![w] =
                    IF ~PathOK(campaigns[c].path, rawpath)
                    THEN [call EXCEPT !.pc = "done", !.err = Err("Internal", <<>>)]
                    ELSE IF force THEN [call EXCEPT !.pc = "create"]
                    ELSE [call EXCEPT !.pc = "stat"]]
    /\ UNCHANGED <<dirs, campFile, sidecar, dataFile, clock, campaigns, last, opened>>
    /\ UNCHANGED notRaw

\* WriteFileData, force being false: os.Stat(rawpath)
WriteStat(w) ==
    /\ wr[w].pc = "stat"
    /\ wr' = [wr EXCEPT ![w] =
                 IF wr[w].rawpath \in DOMAIN dataFile
                 THEN [@ EXCEPT !.pc = "done", !.err = Err("Exists", <<>>)]
                 ELSE [@ EXCEPT !.pc = "create"]]
    /\ UNCHANGED <<dirs, campFile, sidecar, dataFile, clock, campaigns, last, opened>>
    /\ UNCHANGED notRaw

\* a write that takes the campaign lock when it creates the file, and so
\* holds it during the copy
WriteCreate_Locked(w) ==
    /\ wr[w].pc = "create"
    /\ CanLock(campaigns[wr[w].cam].lock)
    /\ campaigns' = [campaigns EXCEPT ![wr[w].cam].lock.w = <<"w", w>>]
    /\ dataFile' = MapPut(dataFile, wr[w].rawpath, [size |-> 0, mtime |-> clock])
    /\ opened' = opened \cup {<<wr[w].cam, wr[w].rawpath>>}
    /\ wr' = [wr EXCEPT ![w].pc = "copy"]
    /\ UNCHANGED <<dirs, campFile, sidecar, clock, last>>
    /\ UNCHANGED notRaw

\* WriteFileData: os.Create(rawpath) makes the file or truncates it
WriteCreate(w) ==
    /\ wr[w].pc = "create"
    /\ dataFile' = MapPut(dataFile, wr[w].rawpath, [size |-> 0, mtime |-> clock])
    /\ opened' = opened \cup {<<wr[w].cam, wr[w].rawpath>>}
    /\ wr' = [wr EXCEPT ![w].pc = "copy"]
    /\ UNCHANGED <<dirs, campFile, sidecar, clock, campaigns, last>>
    /\ UNCHANGED notRaw

\* io.Copy(out, in) and out.Sync(): the writer's bytes go to the start of
\* the file it holds open
WriteCopy(w) ==
    /\ wr[w].pc = "copy"
    /\ LET f == dataFile[wr[w].rawpath]
       IN  dataFile' = [dataFile EXCEPT ![wr[w].rawpath] =
                           [size |-> IF f.size > wr[w].n THEN f.size ELSE wr[w].n,
                            mtime |-> clock]]
    /\ wr' = [wr EXCEPT ![w].pc = "update"]
    /\ UNCHANGED <<dirs, campFile, sidecar, clock, campaigns, last, opened>>
    /\ UNCHANGED notRaw

\* cam.lock.Lock() of WriteFileDataFromStream, once the copy is synced
WriteLock(w) ==
    /\ wr[w].pc = "update"
    /\ CanLock(campaigns[wr[w].cam].lock)
    /\ campaigns' = [campaigns EXCEPT ![wr[w].cam].lock.w = <<"w", w>>]
    /\ wr' = [wr EXCEPT ![w].pc = "locked"]
    /\ UNCHANGED <<dirs, campFile, sidecar, dataFile, clock, last, opened>>
    /\ UNCHANGED notRaw

\* return cam.updateFileVirtualMetadata(filename), and the deferred Unlock
WriteUpdate(w) ==
    /\ wr[w].pc = "locked"
    /\ LET c == wr[w].cam
           name == wr[w].name
       IN  IF name \in DOMAIN campaigns[c].fileMetadata
           THEN LET res == updateFileVirtualMetadata(c, name,
                               campaigns[c].fileMetadata[name], dataFile, sidecar)
                IN  /\ campaigns' = [campaigns EXCEPT ![c].fileMetadata[name] = res.md,
                                                      ![c].lock = NoLock]
                    /\ wr' = [wr EXCEPT ![w].pc = "done", ![w].err = res.err]
           ELSE /\ wr' = [wr EXCEPT ![w].pc = "done",
                                    ![w].err = Err("NotFound", <<>>)]
                /\ campaigns' = [campaigns EXCEPT ![c].lock = NoLock]
    /\ UNCHANGED <<dirs, campFile, sidecar, dataFile, clock, last, opened>>
    /\ UNCHANGED notRaw

\* one campaign with its file f, its metadata and concurrent writes of f
StoreCampaign == <<"c", "x">>

RawNext ==
    \/ Tick
    \/ \E md \in RawCampaignRecords : CreateCampaign(StoreCampaign, md)
    \/ \E md \in RawFileRecords : PutFileMetadata(StoreCampaign, StoredName, md)
    \/ ReadFileData(StoreCampaign, StoredName)
    \/ \E w \in Writers, force \in BOOLEAN :
           WriteBegin(w, StoreCampaign, StoredName, force)
    \/ \E w \in Writers : WriteStat(w)
    \/ \E w \in Writers : WriteCreate(w)
    \/ \E w \in Writers : WriteCopy(w)
    \/ \E w \in Writers : WriteLock(w)
    \/ \E w \in Writers : WriteUpdate(w)

\* the campaigns and file names of every kind, read and written by one
\* caller at a time
TraverseNext ==
    \/ \E c \in CampNames : CreateCampaign(c, RawOwnerOnly)
    \/ \E c \in CampNames, name \in FileNames : ReadFileData(c, name)
    \/ \E c \in CampNames, name \in FileNames, force \in BOOLEAN :
           WriteBegin(1, c, name, force)
    \/ WriteStat(1)
    \/ WriteCreate(1)
    \/ WriteCopy(1)
    \/ WriteLock(1)
    \/ WriteUpdate(1)

(***************************************************************************)
(* One Campaign under concurrent callers: every call takes and releases    *)
(* cam.lock where the code does, and what runs between Lock and Unlock is  *)
(* one step.                                                               *)
(***************************************************************************)
\* the contents of a file that json.Unmarshal rejects
NotJSON == [ZeroMD EXCEPT !.datalink = <<"not json">>]
\* a nil *RawMetadata as a value of the map of file records
NilRecord == [ZeroMD EXCEPT !.datalink = <<"nil">>]
\* a run-time panic that ends the call
Panic == Err("panic", <<>>)

SecondName == << <<"g">> >>
\* the sidecars of a campaign directory in the order ioutil.ReadDir lists them
SidecarNames == <<StoredName, SecondName>>

RawOwnerOther == [ZeroMD EXCEPT !.owner = <<"other">>]
RawTypeOther == [ZeroMD EXCEPT !.filetype = <<"other">>]

\* the loop of reloadMetadata over the directory entries: each sidecar is
\* parsed and stored in the map, then its virtuals are filled in
RECURSIVE LoadSidecars(_, _, _)
LoadSidecars(c, cam, names) ==
    IF names = <<>>
    THEN [err |-> NoErr, cam |-> [cam EXCEPT !.stale = FALSE]]
    ELSE LET name == Head(names)
         IN  IF <<c, name>> \notin DOMAIN sidecar
             THEN LoadSidecars(c, cam, Tail(names))
             ELSE IF cam.isnil
             THEN [err |-> Panic, cam |-> cam]
             ELSE IF sidecar[<<c, name>>].md = NotJSON
             THEN [err |-> Err("Parse", name),
                   cam |-> [cam EXCEPT !.fileMetadata = MapPut(@, name, NilRecord)]]
             ELSE LET md == RawMetadataFromFile(sidecar[<<c, name>>].md,
                                                cam.campaignMetadata)
                      res == updateFileVirtualMetadata(c, name, md, dataFile, sidecar)
                  IN  LoadSidecars(c,
                          [cam EXCEPT !.fileMetadata = MapPut(@, name, res.md)],
                          Tail(names))

\* Campaign.reloadMetadata(force) between Lock and the deferred Unlock
reloadMetadataLocked(c, cam, force) ==
    IF ~force /\ ~cam.stale
    THEN [err |-> NoErr, cam |-> cam]
    ELSE IF c \notin DOMAIN campFile \/ campFile[c] = NotJSON
    THEN [err |-> Err("Parse", <<>>), cam |-> [cam EXCEPT !.campaignMetadata = <<>>]]
    ELSE LoadSidecars(c,
             [cam EXCEPT !.campaignMetadata = <<RawMetadataFromFile(campFile[c], <<>>)>>],
             SidecarNames)

\* the calls that begin with reloadMetadata(false), and the others
ReloadingOps == {"GetCampaignMetadata", "FileNames", "GetFileMetadata",
                 "GetFiletype", "PutFileMetadata"}
LockingOps == {"PutCampaignMetadata", "unloadMetadata"}

\* goroutine t calls op on campaign c
CamCall(t, c, op, name, md) ==
    /\ th[t].pc \in {"idle", "done"}
    /\ c \in DOMAIN campaigns
    /\ th' = [th EXCEPT ![t] =
                 [op |-> op, cam |-> c, name |-> name, md |-> md, err |-> NoErr,
                  own |-> <<>>,
                  pc |-> IF op \in LockingOps THEN "lock" ELSE "reload"]]
    /\ UNCHANGED <<unl, rdsLock, rawVars>>
    /\ UNCHANGED notCam

\* reloadMetadata: cam.lock.Lock()
ReloadLock(t) ==
    /\ th[t].pc = "reload"
    /\ CanLock(campaigns[th[t].cam].lock)
    /\ campaigns' = [campaigns EXCEPT ![th[t].cam].lock.w = Holder(t)]
    /\ th' = [th EXCEPT ![t].pc = "reloading"]
    /\ UNCHANGED <<unl, rdsLock, dirs, campFile, sidecar, dataFile, clock, wr, last,
                   opened>>
    /\ UNCHANGED notCam

\* reloadMetadata(false) to its return, and where the caller goes on
ReloadBody(t) ==
    /\ th[t].pc = "reloading"
    /\ LET c == th[t].cam
           res == reloadMetadataLocked(c, campaigns[c], FALSE)
       IN  /\ campaigns' = [campaigns EXCEPT ![c] = [res.cam EXCEPT !.lock = NoLock]]
           /\ th' = [th EXCEPT ![t].err = res.err,
                               ![t].pc = IF res.err # NoErr THEN "done"
                                         ELSE IF th[t].op = "FileNames" THEN "rlock"
                                         ELSE IF th[t].op = "PutFileMetadata" THEN "lock"
                                         ELSE "read"]
    /\ UNCHANGED <<unl, rdsLock, dirs, campFile, sidecar, dataFile, clock, wr, last,
                   opened>>
    /\ UNCHANGED notCam

\* GetCampaignMetadata, GetFileMetadata and GetFiletype read the caches
ReadCaches(t) ==
    /\ th[t].pc = "read"
    /\ th' = [th EXCEPT ![t].pc = "done",
                        ![t].err =
                            IF /\ th[t].op = "GetFileMetadata"
                               /\ th[t].name \notin DOMAIN campaigns[th[t].cam].fileMetadata
                            THEN Err("NotFound", th[t].name) ELSE NoErr]
    /\ UNCHANGED <<unl, rdsLock, rawVars>>
    /\ UNCHANGED notCam

\* FileNames: cam.lock.RLock()
CamRLock(t) ==
    /\ th[t].pc = "rlock"
    /\ CanRLock(campaigns[th[t].cam].lock)
    /\ campaigns' = [campaigns EXCEPT ![th[t].cam].lock.r = @ \cup {Holder(t)}]
    /\ th' = [th EXCEPT ![t].pc = "rlocked"]
    /\ UNCHANGED <<unl, rdsLock, dirs, campFile, sidecar, dataFile, clock, wr, last,
                   opened>>
    /\ UNCHANGED notCam

\* FileNames reads the keys of the map, and the deferred RUnlock
ReadNames(t) ==
    /\ th[t].pc = "rlocked"
    /\ campaigns' = [campaigns EXCEPT ![th[t].cam].lock.r = @ \ {Holder(t)}]
    /\ th' = [th EXCEPT ![t].pc = "done"]
    /\ UNCHANGED <<unl, rdsLock, dirs, campFile, sidecar, dataFile, clock, wr, last,
                   opened>>
    /\ UNCHANGED notCam

\* PutCampaignMetadata, PutFileMetadata, unloadMetadata: cam.lock.Lock()
CamLock(t) ==
    /\ th[t].pc = "lock"
    /\ CanLock(campaigns[th[t].cam].lock)
    /\ campaigns' = [campaigns EXCEPT ![th[t].cam].lock.w = Holder(t)]
    /\ th' = [th EXCEPT ![t].pc = "locked"]
    /\ UNCHANGED <<unl, rdsLock, dirs, campFile, sidecar, dataFile, clock, wr, last,
                   opened>>
    /\ UNCHANGED notCam

\* PutCampaignMetadata(md) holding the lock: validate and writeToFile
PutCampaignMetadataWrite(t) ==
    /\ th[t].pc = "locked"
    /\ th[t].op = "PutCampaignMetadata"
    /\ LET c == th[t].cam
           md == th[t].md
       IN  IF validate(md, TRUE) # <<>>
           THEN /\ th' = [th EXCEPT ![t].pc = "done",
                             ![t].err = PTOMissingMetadataError(validate(md, TRUE))]
                /\ campaigns' = [campaigns EXCEPT ![c].lock = NoLock]
                /\ UNCHANGED campFile
           ELSE /\ campFile' = MapPut(campFile, c, Persisted(md))
                /\ th' = [th EXCEPT ![t].pc = "written"]
                /\ UNCHANGED campaigns
    /\ UNCHANGED <<unl, rdsLock, dirs, sidecar, dataFile, clock, wr, last, opened>>
    /\ UNCHANGED notCam

\* PutCampaignMetadata(md): cam.campaignMetadata = md, and the deferred Unlock
PutCampaignMetadataCache(t) ==
    /\ th[t].pc = "written"
    /\ th[t].op = "PutCampaignMetadata"
    /\ campaigns' = [campaigns EXCEPT ![th[t].cam].campaignMetadata = <<th[t].md>>,
                                      ![th[t].cam].lock = NoLock]
    /\ th' = [th EXCEPT ![t].pc = "done"]
    /\ UNCHANGED <<unl, rdsLock, dirs, campFile, sidecar, dataFile, clock, wr, last,
                   opened>>
    /\ UNCHANGED notCam

\* PutFileMetadata(name, md) holding the lock: the parent is set, the
\* filetype tested and the record written to its sidecar
PutFileMetadataWrite(t) ==
    /\ th[t].pc = "locked"
    /\ th[t].op = "PutFileMetadata"
    /\ LET c == th[t].cam
           md1 == [th[t].md EXCEPT !.Parent = campaigns[c].campaignMetadata]
       IN  IF Filetype(md1, TRUE) = <<>>
           THEN /\ th' = [th EXCEPT ![t].pc = "done",
                             ![t].err = PTOMissingMetadataError(K_file_type)]
                /\ campaigns' = [campaigns EXCEPT ![c].lock = NoLock]
                /\ UNCHANGED sidecar
           ELSE /\ sidecar' = MapPut(sidecar, <<c, th[t].name>>,
                                     [md |-> Persisted(md1), mtime |-> clock])
                /\ th' = [th EXCEPT ![t].pc = "written", ![t].md = md1]
                /\ UNCHANGED campaigns
    /\ UNCHANGED <<unl, rdsLock, dirs, campFile, dataFile, clock, wr, last, opened>>
    /\ UNCHANGED notCam

\* PutFileMetadata(name, md): cam.fileMetadata[filename] = md, which panics
\* on a nil map, then updateFileVirtualMetadata and the deferred Unlock
PutFileMetadataCache(t) ==
    /\ th[t].pc = "written"
    /\ th[t].op = "PutFileMetadata"
    /\ LET c == th[t].cam
           name == th[t].name
           res == updateFileVirtualMetadata(c, name, th[t].md, dataFile, sidecar)
       IN  IF campaigns[c].isnil
           THEN /\ th' = [th EXCEPT ![t].pc = "done", ![t].err = Panic]
                /\ campaigns' = [campaigns EXCEPT ![c].lock = NoLock]
           ELSE /\ th' = [th EXCEPT ![t].pc = "done", ![t].err = res.err]
                /\ campaigns' = [campaigns EXCEPT
                                   ![c].fileMetadata = MapPut(@, name, res.md),
                                   ![c].lock = NoLock]
    /\ UNCHANGED <<unl, rdsLock, dirs, campFile, sidecar, dataFile, clock, wr, last,
                   opened>>
    /\ UNCHANGED notCam

\* unloadMetadata between Lock and the deferred Unlock
unloadMetadata(t) ==
    /\ th[t].pc = "locked"
    /\ th[t].op = "unloadMetadata"
    /\ LET c == th[t].cam
       IN  /\ unl' = [loaded |-> ~campaigns[c].stale,
                      campaignMetadata |-> campaigns[c].campaignMetadata,
                      names |-> DOMAIN campaigns[c].fileMetadata]
           /\ campaigns' = [campaigns EXCEPT ![c].campaignMetadata = <<>>,
                                             ![c].fileMetadata = EmptyMap,
                                             ![c].isnil = TRUE,
                                             ![c].stale = TRUE,
                                             ![c].lock = NoLock]
    /\ th' = [th EXCEPT ![t].pc = "done"]
    /\ UNCHANGED <<rdsLock, dirs, campFile, sidecar, dataFile, clock, wr, last, opened>>
    /\ UNCHANGED notCam

\* the steps of the calls that are under way
CamSteps ==
    \/ \E t \in Goroutines : ReloadLock(t)
    \/ \E t \in Goroutines : ReloadBody(t)
    \/ \E t \in Goroutines : ReadCaches(t)
    \/ \E t \in Goroutines : CamRLock(t)
    \/ \E t \in Goroutines : ReadNames(t)
    \/ \E t \in Goroutines : CamLock(t)
    \/ \E t \in Goroutines : PutCampaignMetadataWrite(t)
    \/ \E t \in Goroutines : PutCampaignMetadataCache(t)
    \/ \E t \in Goroutines : PutFileMetadataWrite(t)
    \/ \E t \in Goroutines : PutFileMetadataCache(t)

\* NewRawDataStore on a root directory that holds the directory of one
\* campaign: its metadata file and up to two sidecars, any of them readable
\* or not
DiskFiles == {RawOwnerOnly, NotJSON}
DiskSidecars == {RawTypeOnly, NotJSON}
ReloadInit ==
    /\ dirs = {StoreCampaign}
    /\ campFile \in [{StoreCampaign} -> DiskFiles]
    /\ \E names \in SUBSET {StoredName, SecondName} :
           sidecar \in [{StoreCampaign} \X names ->
                           [md : DiskSidecars, mtime : {0}]]
    /\ dataFile = EmptyMap
    /\ clock = 0
    /\ campaigns = [c \in {StoreCampaign} |-> newCampaign(c)]
    /\ wr = [w \in Writers |-> NoWrite]
    /\ last = NoOp
    /\ opened = {}
    /\ th = [t \in Goroutines |-> NoCamCall]
    /\ unl = NoUnload
    /\ rdsLock = NoLock

\* the calls on a campaign that load, change and unload its caches
ReloadNext ==
    \/ \E t \in Goroutines :
           \E op \in {"GetCampaignMetadata", "FileNames", "unloadMetadata"} :
               CamCall(t, StoreCampaign, op, <<>>, ZeroMD)
    \/ \E t \in Goroutines :
           \E op \in {"GetFileMetadata", "GetFiletype"} :
               CamCall(t, StoreCampaign, op, StoredName, ZeroMD)
    \/ \E t \in Goroutines :
           CamCall(t, StoreCampaign, "PutFileMetadata", StoredName, RawTypeOnly)
    \/ \E t \in Goroutines :
           CamCall(t, StoreCampaign, "PutCampaignMetadata", <<>>, RawOwnerOther)
    \/ CamSteps
    \/ \E t \in Goroutines : unloadMetadata(t)

\* a campaign is created, then its metadata is put and read by concurrent
\* callers while a data file is written
PutsNext ==
    \/ CreateCampaign(StoreCampaign, RawOwnerOnly)
    \/ \E t \in Goroutines, md \in {RawOwnerOnly, RawOwnerOther} :
           CamCall(t, StoreCampaign, "PutCampaignMetadata", <<>>, md)
    \/ \E t \in Goroutines, md \in {RawTypeOnly, RawTypeOther} :
           CamCall(t, StoreCampaign, "PutFileMetadata", StoredName, md)
    \/ \E t \in Goroutines :
           \E op \in {"GetCampaignMetadata", "FileNames"} :
               CamCall(t, StoreCampaign, op, <<>>, ZeroMD)
    \/ CamSteps
    \/ WriteBegin(1, StoreCampaign, StoredName, TRUE)
    \/ WriteCreate(1)
    \/ WriteCopy(1)
    \/ WriteLock(1)
    \/ WriteUpdate(1)

(***************************************************************************)
(* RawDataStore under concurrent callers: the campaign cache and its lock. *)
(* CreateCampaign works on a Campaign of its own (own) until it registers  *)
(* it.                                                                     *)
(***************************************************************************)
\* a call on a Campaign is under way
InCampaignCall(t) ==
    th[t].pc \notin {"idle", "done"} /\ th[t].op \in ReloadingOps \cup LockingOps

\* goroutine t calls op on the store
StoreCall(t, op, c, md) ==
    /\ th[t].pc \in {"idle", "done"}
    /\ th' = [th EXCEPT ![t] =
                 [NoCamCall EXCEPT
                    !.op = op, !.cam = c, !.md = md,
                    !.pc = IF op = "CreateCampaign" THEN "new"
                           ELSE IF op = "ScanCampaigns" THEN "rdslock"
                           ELSE IF op = "CampaignNames" THEN "rdsrlock"
                           ELSE "lookup"]]
    /\ UNCHANGED <<unl, rdsLock, rawVars>>
    /\ UNCHANGED notCam

\* a newCampaign that does not look for the directory
CreateStat_NoStat(t) ==
    /\ th[t].pc = "new"
    /\ th' = [th EXCEPT ![t] =
                 IF validate(th[t].md, TRUE) # <<>>
                 THEN [@ EXCEPT !.pc = "done",
                          !.err = PTOMissingMetadataError(validate(th[t].md, TRUE))]
                 ELSE [@ EXCEPT !.pc = "mkdir"]]
    /\ UNCHANGED <<unl, rdsLock, rawVars>>
    /\ UNCHANGED notCam

\* newCampaign(config, name, md): md.validate(true), then os.Stat(cam.path)
CreateStat(t) ==
    /\ th[t].pc = "new"
    /\ th' = [th EXCEPT ![t] =
                 IF validate(th[t].md, TRUE) # <<>>
                 THEN [@ EXCEPT !.pc = "done",
                          !.err = PTOMissingMetadataError(validate(th[t].md, TRUE))]
                 ELSE IF th[t].cam \in dirs
                 THEN [@ EXCEPT !.pc = "done", !.err = Err("Exists", th[t].cam)]
                 ELSE [@ EXCEPT !.pc = "mkdir"]]
    /\ UNCHANGED <<unl, rdsLock, rawVars>>
    /\ UNCHANGED notCam

\* newCampaign: os.Mkdir, which fails on a directory made since the Stat,
\* and md.writeToFile
CreateMkdir(t) ==
    /\ th[t].pc = "mkdir"
    /\ IF th[t].cam \in dirs
       THEN /\ th' = [th EXCEPT ![t].pc = "done", ![t].err = Err("Wrapped", <<>>)]
            /\ UNCHANGED <<dirs, campFile>>
       ELSE /\ dirs' = dirs \cup {th[t].cam}
            /\ campFile' = MapPut(campFile, th[t].cam, Persisted(th[t].md))
            /\ th' = [th EXCEPT ![t].pc = "newreload",
                                ![t].own = <<newCampaign(th[t].cam)>>]
    /\ UNCHANGED <<unl, rdsLock, sidecar, dataFile, clock, campaigns, wr, last, opened>>
    /\ UNCHANGED notCam

\* newCampaign: cam.reloadMetadata(true), on the new Campaign
CreateReload(t) ==
    /\ th[t].pc = "newreload"
    /\ LET res == reloadMetadataLocked(th[t].cam, th[t].own[1], TRUE)
       IN  th' = [th EXCEPT ![t].own = <<res.cam>>,
                            ![t].err = res.err,
                            ![t].pc = IF res.err # NoErr THEN "done" ELSE "putlock"]
    /\ UNCHANGED <<unl, rdsLock, rawVars>>
    /\ UNCHANGED notCam

\* CreateCampaign: cam.PutCampaignMetadata(md) takes the lock of the new
\* Campaign
CreatePutLock(t) ==
    /\ th[t].pc = "putlock"
    /\ CanLock(th[t].own[1].lock)
    /\ th' = [th EXCEPT ![t].own[1].lock.w = Holder(t), ![t].pc = "putting"]
    /\ UNCHANGED <<unl, rdsLock, rawVars>>
    /\ UNCHANGED notCam

\* a PutCampaignMetadata that returns with the lock still held
CreatePut_NoUnlock(t) ==
    /\ th[t].pc = "putting"
    /\ campFile' = MapPut(campFile, th[t].cam, Persisted(th[t].md))
    /\ th' = [th EXCEPT ![t].own[1].campaignMetadata = <<th[t].md>>,
                        ![t].pc = "rdslock"]
    /\ UNCHANGED <<unl, rdsLock, dirs, sidecar, dataFile, clock, campaigns, wr, last,
                   opened>>
    /\ UNCHANGED notCam

\* CreateCampaign: cam.PutCampaignMetadata(md) to its return
CreatePut(t) ==
    /\ th[t].pc = "putting"
    /\ campFile' = MapPut(campFile, th[t].cam, Persisted(th[t].md))
    /\ th' = [th EXCEPT ![t].own[1].campaignMetadata = <<th[t].md>>,
                        ![t].own[1].lock = NoLock,
                        ![t].pc = "rdslock"]
    /\ UNCHANGED <<unl, rdsLock, dirs, sidecar, dataFile, clock, campaigns, wr, last,
                   opened>>
    /\ UNCHANGED notCam

\* CreateCampaign and ScanCampaigns: rds.lock.Lock()
RdsLock(t) ==
    /\ th[t].pc = "rdslock"
    /\ CanLock(rdsLock)
    /\ rdsLock' = [rdsLock EXCEPT !.w = Holder(t)]
    /\ th' = [th EXCEPT ![t].pc = IF th[t].op = "CreateCampaign" THEN "register"
                                  ELSE "scan"]
    /\ UNCHANGED <<unl, rawVars>>
    /\ UNCHANGED notCam

\* CreateCampaign: rds.campaigns[camname] = cam; rds.lock.Unlock()
CreateRegister(t) ==
    /\ th[t].pc = "register"
    /\ campaigns' = MapPut(campaigns, th[t].cam, th[t].own[1])
    /\ rdsLock' = NoLock
    /\ th' = [th EXCEPT ![t].pc = "done", ![t].own = <<>>]
    /\ UNCHANGED <<unl, dirs, campFile, sidecar, dataFile, clock, wr, last, opened>>
    /\ UNCHANGED notCam

\* the directories ScanCampaigns makes a Campaign for
Scanned == {c \in dirs : c \in DOMAIN campFile}

\* ScanCampaigns between Lock and the deferred Unlock: a new map with a
\* new stale Campaign for every directory that has a metadata file.  The
\* calls under way on the Campaigns it replaces are not followed further,
\* so the scan is taken when there are none
ScanCampaigns(t) ==
    /\ th[t].pc = "scan"
    /\ \A u \in Goroutines : ~InCampaignCall(u)
    /\ campaigns' = [c \in Scanned |-> newCampaign(c)]
    /\ rdsLock' = NoLock
    /\ th' = [th EXCEPT ![t].pc = "done"]
    /\ UNCHANGED <<unl, dirs, campFile, sidecar, dataFile, clock, wr, last, opened>>
    /\ UNCHANGED notCam

\* CampaignNames: rds.lock.RLock()
RdsRLock(t) ==
    /\ th[t].pc = "rdsrlock"
    /\ CanRLock(rdsLock)
    /\ rdsLock' = [rdsLock EXCEPT !.r = @ \cup {Holder(t)}]
    /\ th' = [th EXCEPT ![t].pc = "names"]
    /\ UNCHANGED <<unl, rawVars>>
    /\ UNCHANGED notCam

\* CampaignNames reads the keys of the map, and the deferred RUnlock
CampaignNames(t) ==
    /\ th[t].pc = "names"
    /\ rdsLock' = [rdsLock EXCEPT !.r = @ \ {Holder(t)}]
    /\ th' = [th EXCEPT ![t].pc = "done"]
    /\ UNCHANGED <<unl, rawVars>>
    /\ UNCHANGED notCam

\* CampaignForName(camname)
CampaignForName(t) ==
    /\ th[t].pc = "lookup"
    /\ th' = [th EXCEPT ![t].pc = "done",
                        ![t].err = IF th[t].cam \in DOMAIN campaigns THEN NoErr
                                   ELSE Err("NotFound", th[t].cam)]
    /\ UNCHANGED <<unl, rdsLock, rawVars>>
    /\ UNCHANGED notCam

\* NewRawDataStore on a root directory that holds no, one or two
\* directories, with or without a campaign metadata file
StoreInit ==
    /\ dirs \in SUBSET CampNames
    /\ \E withfile \in SUBSET dirs : campFile = [c \in withfile |-> RawOwnerOnly]
    /\ sidecar = EmptyMap
    /\ dataFile = EmptyMap
    /\ clock = 0
    /\ campaigns = [c \in Scanned |-> newCampaign(c)]
    /\ wr = [w \in Writers |-> NoWrite]
    /\ last = NoOp
    /\ opened = {}
    /\ th = [t \in Goroutines |-> NoCamCall]
    /\ unl = NoUnload
    /\ rdsLock = NoLock

\* campaigns are created, scanned, listed, looked up and read concurrently
StoreNext ==
    \/ \E t \in Goroutines, c \in CampNames, md \in RawCampaignRecords :
           StoreCall(t, "CreateCampaign", c, md)
    \/ \E t \in Goroutines :
           \E op \in {"ScanCampaigns", "CampaignNames"} :
               StoreCall(t, op, <<>>, ZeroMD)
    \/ \E t \in Goroutines, c \in CampNames :
           StoreCall(t, "CampaignForName", c, ZeroMD)
    \/ \E t \in Goroutines :
           CamCall(t, StoreCampaign, "GetCampaignMetadata", <<>>, ZeroMD)
    \/ \E t \in Goroutines : CreateStat(t)
    \/ \E t \in Goroutines : CreateMkdir(t)
    \/ \E t \in Goroutines : CreateReload(t)
    \/ \E t \in Goroutines : CreatePutLock(t)
    \/ \E t \in Goroutines : CreatePut(t)
    \/ \E t \in Goroutines : RdsLock(t)
    \/ \E t \in Goroutines : CreateRegister(t)
    \/ \E t \in Goroutines : ScanCampaigns(t)
    \/ \E t \in Goroutines : RdsRLock(t)
    \/ \E t \in Goroutines : CampaignNames(t)
    \/ \E t \in Goroutines : CampaignForName(t)
    \/ \E t \in Goroutines : ReloadLock(t)
    \/ \E t \in Goroutines : ReloadBody(t)
    \/ \E t \in Goroutines : ReadCaches(t)

(***************************************************************************)
(* PathCache.CacheNewPaths.                                                *)
(***************************************************************************)
NoCall ==
    [proc |-> "none", cpc |-> "idle", input |-> {}, pathSet |-> {},
     cacheBefore |-> [s \in PathStrings |-> 0], nv |-> 0, seqAfter |-> 0,
     ppc |-> "none", rem |-> {}, cur |-> <<>>, pidseq |-> 0,
     buf |-> <<>>, bufErr |-> FALSE, pipe |-> <<>>,
     rdClosed |-> FALSE, wrClosed |-> FALSE, copied |-> <<>>,
     streamerr |-> <<>>, ret |-> "none", drained |-> FALSE,
     assigned |-> {}, loaded |-> {}]

\* a filter that takes an entry of 1 for no entry
FilterCached_OffByOne(c, S) == {ps \in S : ~(c[ps] > 1)}

\* the first loop of CacheNewPaths: the strings with no positive cache entry
FilterCached(c, S) == {ps \in S : ~(c[ps] > 0)}

\* nextval('paths_id_seq'): advances the sequence and returns the new value
SeqNextval(s) == s + 1

\* setval('paths_id_seq', pidseq + len(pathSet)): the value set is the last
\* value issued, the next nextval returns one more
SetvalArg(pidseq, n) == pidseq + n

\* the csv record of one path: []string{fmt.Sprintf("%d", pidseq), pathstring}
CsvRecord(pidseq, ps) == [id |-> Itoa(pidseq), string |-> ps]

\* COPY paths (id, string) FROM STDIN WITH CSV: the rows of the records read
CopyRows(recs) == {[id |-> Atoi(recs[i].id).v, string |-> recs[i].string] : i \in 1..Len(recs)}

\* the primary key of paths: no two rows share an id
KeyConflict(recs, table) ==
    \/ \E i \in 1..Len(recs) : \E r \in table : r.id = Atoi(recs[i].id).v
    \/ \E i, j \in 1..Len(recs) : i # j /\ recs[i].id = recs[j].id

\* capacity of the error channel: make(chan error, 1)
StreamErrCap == 1

PathInit ==
    /\ seq = 0
    /\ paths = {}
    /\ cache = [p \in Procs |-> [s \in PathStrings |-> 0]]
    /\ calls = [k \in 1..MaxCalls |-> NoCall]
    /\ ncalls = 0

\* processes are interchangeable: the first call is made by this one
FirstProc == "proc1"

\* the calling goroutine of process p is inside no call
MainIdle(p) == \A k \in 1..MaxCalls : calls[k].proc = p => calls[k].cpc = "returned"

\* the caller returns: the deferred dbpipe.Close() runs when the pipe exists
Return(c, r) == [c EXCEPT !.cpc = "returned", !.ret = r,
                          !.rdClosed = (c.ppc # "none")]

\* entry of CacheNewPaths and its filter loop (lines 139-145)
Start(k, p, S) ==
    /\ k = ncalls + 1
    /\ k <= MaxCalls
    /\ MainIdle(p)
    /\ k = 1 => p = FirstProc
    /\ ncalls' = k
    /\ calls' = [calls EXCEPT ![k] =
           [NoCall EXCEPT !.proc = p, !.cpc = "nextval", !.input = S,
                          !.pathSet = FilterCached(cache[p], S),
                          !.cacheBefore = cache[p]]]
    /\ UNCHANGED <<seq, paths, cache>>
    /\ UNCHANGED notPath

\* SELECT nextval('paths_id_seq') (lines 152-155)
Nextval(k) ==
    /\ calls[k].cpc = "nextval"
    /\ \/ /\ seq' = SeqNextval(seq)
          /\ calls' = [calls EXCEPT ![k] = [@ EXCEPT !.cpc = "setval", !.nv = SeqNextval(seq)]]
       \/ /\ calls' = [calls EXCEPT ![k] = Return(@, "err")]
          /\ UNCHANGED seq
    /\ UNCHANGED <<paths, cache, ncalls>>
    /\ UNCHANGED notPath

\* SELECT setval('paths_id_seq', pidseq+len(pathSet)) (lines 157-159)
Setval(k) ==
    /\ calls[k].cpc = "setval"
    /\ \/ /\ seq' = SetvalArg(calls[k].nv, Cardinality(calls[k].pathSet))
          /\ calls' = [calls EXCEPT ![k] =
                 [@ EXCEPT !.cpc = "pipe",
                           !.seqAfter = SetvalArg(calls[k].nv, Cardinality(calls[k].pathSet))]]
       \/ /\ calls' = [calls EXCEPT ![k] = Return(@, "err")]
          /\ UNCHANGED seq
    /\ UNCHANGED <<paths, cache, ncalls>>
    /\ UNCHANGED notPath

\* make(chan error, 1), os.Pipe() and the go statement (lines 162-169)
Pipe(k) ==
    /\ calls[k].cpc = "pipe"
    /\ \/ calls' = [calls EXCEPT ![k] =
              [@ EXCEPT !.cpc = "copy", !.ppc = "loop",
                        !.rem = calls[k].pathSet, !.pidseq = calls[k].nv]]
       \/ calls' = [calls EXCEPT ![k] = Return(@, "err")]
    /\ UNCHANGED <<seq, paths, cache, ncalls>>
    /\ UNCHANGED notPath

\* the goroutine's loop head and cache[pathstring] = pidseq (lines 173-175)
ProdAssign(k) ==
    /\ calls[k].ppc = "loop"
    /\ \E ps \in calls[k].rem :
          /\ cache' = [cache EXCEPT ![calls[k].proc][ps] = calls[k].pidseq]
          /\ calls' = [calls EXCEPT ![k] =
                 [@ EXCEPT !.ppc = "write", !.cur = ps, !.rem = @ \ {ps},
                           !.assigned = @ \cup {<<calls[k].pidseq, ps>>}]]
    /\ UNCHANGED <<seq, paths, ncalls>>
    /\ UNCHANGED notPath

\* out.Write(p) (line 177): csv.Writer buffers; a full buffer is written to
\* the pipe first, and an error of that write stays with the writer
ProdWrite(k) ==
    LET c == calls[k]
        rec == CsvRecord(c.pidseq, c.cur)
    IN  /\ c.ppc = "write"
        /\ \/ /\ c.bufErr
              /\ calls' = [calls EXCEPT ![k] = [@ EXCEPT !.ppc = "senderr"]]
           \/ /\ ~c.bufErr
              /\ Len(c.buf) < BufCap
              /\ calls' = [calls EXCEPT ![k] =
                     [@ EXCEPT !.ppc = "loop", !.buf = Append(c.buf, rec),
                               !.pidseq = c.pidseq + 1]]
           \/ /\ ~c.bufErr
              /\ Len(c.buf) >= BufCap
              /\ ~c.rdClosed
              /\ Len(c.pipe) + Len(c.buf) <= PipeCap
              /\ calls' = [calls EXCEPT ![k] =
                     [@ EXCEPT !.ppc = "loop", !.pipe = c.pipe \o c.buf,
                               !.buf = <<rec>>, !.pidseq = c.pidseq + 1]]
           \/ /\ ~c.bufErr
              /\ Len(c.buf) >= BufCap
              /\ calls' = [calls EXCEPT ![k] =
                     [@ EXCEPT !.ppc = "senderr", !.bufErr = TRUE, !.buf = <<>>]]
        /\ UNCHANGED <<seq, paths, cache, ncalls>>
        /\ UNCHANGED notPath

\* streamerr <- err, then pidseq++ (lines 178-181)
ProdSendErr(k) ==
    /\ calls[k].ppc = "senderr"
    /\ Len(calls[k].streamerr) < StreamErrCap
    /\ calls' = [calls EXCEPT ![k] =
           [@ EXCEPT !.ppc = "loop", !.streamerr = Append(@, "err"),
                     !.pidseq = @ + 1]]
    /\ UNCHANGED <<seq, paths, cache, ncalls>>
    /\ UNCHANGED notPath

\* out.Flush() (line 184): its error is not looked at
ProdFlush(k) ==
    LET c == calls[k]
    IN  /\ c.ppc = "loop"
        /\ c.rem = {}
        /\ \/ /\ c.bufErr \/ c.buf = <<>>
              /\ calls' = [calls EXCEPT ![k] =
                     [@ EXCEPT !.ppc = "sendnil"]]
           \/ /\ ~c.bufErr /\ c.buf # <<>>
              /\ ~c.rdClosed
              /\ Len(c.pipe) + Len(c.buf) <= PipeCap
              /\ calls' = [calls EXCEPT ![k] =
                     [@ EXCEPT !.ppc = "sendnil", !.pipe = c.pipe \o c.buf,
                               !.buf = <<>>]]
           \/ /\ ~c.bufErr /\ c.buf # <<>>
              /\ calls' = [calls EXCEPT ![k] =
                     [@ EXCEPT !.ppc = "sendnil", !.bufErr = TRUE, !.buf = <<>>]]
        /\ UNCHANGED <<seq, paths, cache, ncalls>>
        /\ UNCHANGED notPath

\* streamerr <- nil and the deferred pathpipe.Close() (lines 185, 171)
ProdSendNil(k) ==
    /\ calls[k].ppc = "sendnil"
    /\ Len(calls[k].streamerr) < StreamErrCap
    /\ calls' = [calls EXCEPT ![k] =
           [@ EXCEPT !.ppc = "done", !.streamerr = Append(@, "nil"),
                     !.wrClosed = TRUE]]
    /\ UNCHANGED <<seq, paths, cache, ncalls>>
    /\ UNCHANGED notPath

\* db.CopyFrom reads what the pipe holds (line 189)
CopyRead(k) ==
    /\ calls[k].cpc = "copy"
    /\ calls[k].pipe # <<>>
    /\ calls' = [calls EXCEPT ![k] =
           [@ EXCEPT !.copied = @ \o calls[k].pipe, !.pipe = <<>>]]
    /\ UNCHANGED <<seq, paths, cache, ncalls>>
    /\ UNCHANGED notPath

\* db.CopyFrom reads end of input: the COPY statement completes, or fails on
\* the primary key (lines 189-191)
CopyEnd(k) ==
    LET c == calls[k]
    IN  /\ c.cpc = "copy"
        /\ c.pipe = <<>>
        /\ c.wrClosed
        /\ \/ /\ ~KeyConflict(c.copied, paths)
              /\ paths' = paths \cup CopyRows(c.copied)
              /\ calls' = [calls EXCEPT ![k] =
                     [@ EXCEPT !.cpc = "recv", !.loaded = CopyRows(c.copied)]]
           \/ /\ KeyConflict(c.copied, paths)
              /\ calls' = [calls EXCEPT ![k] = Return(@, "err")]
              /\ UNCHANGED paths
        /\ UNCHANGED <<seq, cache, ncalls>>
        /\ UNCHANGED notPath

\* db.CopyFrom fails in the database: return err (lines 189-191)
CopyFail(k) ==
    /\ calls[k].cpc = "copy"
    /\ calls' = [calls EXCEPT ![k] = Return(@, "err")]
    /\ UNCHANGED <<seq, paths, cache, ncalls>>
    /\ UNCHANGED notPath

\* return <-streamerr (line 194)
Recv(k) ==
    /\ calls[k].cpc = "recv"
    /\ calls[k].streamerr # <<>>
    /\ calls' = [calls EXCEPT ![k] =
           [Return(@, Head(calls[k].streamerr)) EXCEPT
               !.streamerr = Tail(calls[k].streamerr), !.drained = TRUE]]
    /\ UNCHANGED <<seq, paths, cache, ncalls>>
    /\ UNCHANGED notPath

PathNext ==
    \/ \E k \in 1..MaxCalls, p \in Procs, S \in SUBSET PathStrings : Start(k, p, S)
    \/ \E k \in 1..MaxCalls : Nextval(k)
    \/ \E k \in 1..MaxCalls : Setval(k)
    \/ \E k \in 1..MaxCalls : Pipe(k)
    \/ \E k \in 1..MaxCalls : ProdAssign(k)
    \/ \E k \in 1..MaxCalls : ProdWrite(k)
    \/ \E k \in 1..MaxCalls : ProdSendErr(k)
    \/ \E k \in 1..MaxCalls : ProdFlush(k)
    \/ \E k \in 1..MaxCalls : ProdSendNil(k)
    \/ \E k \in 1..MaxCalls : CopyRead(k)
    \/ \E k \in 1..MaxCalls : CopyEnd(k)
    \/ \E k \in 1..MaxCalls : CopyFail(k)
    \/ \E k \in 1..MaxCalls : Recv(k)

(***************************************************************************)
(* The observation store: Path.InsertOnce, Condition.InsertOnce,           *)
(* ObservationSet.Insert, ObservationSet.CountObservations and             *)
(* Observation.InsertInSet, on the tables CreateTables makes.              *)
(***************************************************************************)
SetObjIds == {1, 2}

\* the wire lines posted: zoned and UTC start times, and a value that is
\* absent, zero or not zero
WireStarts == {FormatRFC3339([sec |-> 3, off |-> 0]), FormatRFC3339([sec |-> 3, off |-> 1])}
WireSixths == {<<>>, <<JNum(0)>>, <<JNum(5)>>}
WireLines ==
    {<<JNum(0), JStr(st), JStr(FormatRFC3339([sec |-> 5, off |-> 0])), JStr(ps), JStr(cn)>> \o six :
        st \in WireStarts, ps \in ObsPathStrings, cn \in ObsCondNames, six \in WireSixths}

\* json.Unmarshal of each of these lines into a new Observation
DecodedLine == [line \in WireLines |-> UnmarshalJSON(line, ZeroObs)]

\* the goroutines that call Condition.InsertOnce, each on its own Condition
CondCallers == {"k1", "k2"}
NoInsertOnce == [pc |-> "idle", c |-> [ID |-> 0, Name |-> <<>>]]

ObsInit ==
    /\ conditions = {}
    /\ condSeq = 0
    /\ setRows = {}
    /\ setSeq = 0
    /\ obsRows = {}
    /\ obsSeq = 0
    /\ setObjs = [i \in SetObjIds |-> [ID |-> 0, count |-> 0]]
    /\ posted = <<>>
    /\ cio = [k \in CondCallers |-> NoInsertOnce]

\* SelectOrInsert of Path.InsertOnce and Condition.InsertOnce: the ids of the
\* rows the select finds, or else the id the insert draws from the sequence
SelectOrInsertIds(matches, sq) ==
    IF matches # {} THEN {r.id : r \in matches} ELSE {sq + 1}

\* an Insert that inserts the set whatever its id
SetInsertID_Always(set, force, sq) == sq + 1

\* ObservationSet.Insert(db, force): the id the set has afterwards
SetInsertID(set, force, sq) ==
    IF (IF force THEN 0 ELSE set.ID) = 0 THEN sq + 1 ELSE set.ID

\* the row db.Insert(obs) writes
ObservationRow(id, obs) ==
    [id |-> id, set_id |-> obs.SetID, start |-> obs.Start.sec, end |-> obs.End.sec,
     path_id |-> obs.PathID, condition_id |-> obs.ConditionID, value |-> obs.Value]

\* set.Insert(db, force) on a set value in memory
SetInsert(i, force) ==
    LET id == SetInsertID(setObjs[i], force, setSeq)
    IN  /\ setSeq < MaxSetRows
        /\ setObjs' = [setObjs EXCEPT ![i].ID = id]
        /\ setRows' = IF id = setObjs[i].ID THEN setRows ELSE setRows \cup {[id |-> id]}
        /\ setSeq' = IF id = setObjs[i].ID THEN setSeq ELSE setSeq + 1
        /\ UNCHANGED <<seq, paths, conditions, condSeq, obsRows, obsSeq, posted, cio>>
        /\ UNCHANGED notObs

\* json.Unmarshal of a posted line, then obs.InsertInSet(db, set)
InsertInSet(i, line) ==
    LET dec == DecodedLine[line]
        pmatch == {r \in paths : r.string = dec.obs.Path.String}
        cmatch == {r \in conditions : r.name = dec.obs.Condition.Name}
        sid == SetInsertID(setObjs[i], FALSE, setSeq)
    IN  /\ ~dec.err
        /\ obsSeq < MaxObs
        /\ sid = setObjs[i].ID \/ setSeq < MaxSetRows
        /\ \E pid \in SelectOrInsertIds(pmatch, seq), cid \in SelectOrInsertIds(cmatch, condSeq) :
              LET obs == [dec.obs EXCEPT !.Path.ID = pid, !.PathID = pid,
                                         !.Condition.ID = cid, !.ConditionID = cid,
                                         !.SetID = sid]
              IN  /\ paths' = IF pmatch # {} THEN paths
                              ELSE paths \cup {[id |-> pid, string |-> obs.Path.String]}
                  /\ seq' = IF pmatch # {} THEN seq ELSE seq + 1
                  /\ conditions' = IF cmatch # {} THEN conditions
                                   ELSE conditions \cup {[id |-> cid, name |-> obs.Condition.Name]}
                  /\ condSeq' = IF cmatch # {} THEN condSeq ELSE condSeq + 1
                  /\ obsRows' = obsRows \cup {ObservationRow(obsSeq + 1, obs)}
        /\ setObjs' = [setObjs EXCEPT ![i].ID = sid]
        /\ setRows' = IF sid = setObjs[i].ID THEN setRows ELSE setRows \cup {[id |-> sid]}
        /\ setSeq' = IF sid = setObjs[i].ID THEN setSeq ELSE setSeq + 1
        /\ obsSeq' = obsSeq + 1
        /\ posted' = line
        /\ UNCHANGED cio
        /\ UNCHANGED notObs

\* the count query of CountObservations: the rows whose set_id is the set's id
CountRows(id) == Cardinality({r \in obsRows : r.set_id = id})

\* what CountObservations leaves in set.count and returns
CountResult(set) == IF set.count = 0 THEN CountRows(set.ID) ELSE set.count

\* set.CountObservations(db)
CountObservations(i) ==
    /\ setObjs' = [setObjs EXCEPT ![i].count = CountResult(setObjs[i])]
    /\ UNCHANGED <<seq, paths, conditions, condSeq, setRows, setSeq, obsRows, obsSeq,
                   posted, cio>>
    /\ UNCHANGED notObs

\* TestObservationRoundtrip: db.Select of the observation by id, of its
\* condition and of its path, then json.Marshal: the lines this can yield (the
\* times come back in the zone of the session)
ReadBack(id) ==
    {MarshalJSON([ZeroObs EXCEPT
         !.ID = row.id, !.SetID = row.set_id,
         !.Start = [sec |-> row.start, off |-> zone],
         !.End = [sec |-> row.end, off |-> zone],
         !.PathID = row.path_id,
         !.Path = [ID |-> prow.id, String |-> prow.string],
         !.ConditionID = row.condition_id,
         !.Condition = [ID |-> crow.id, Name |-> crow.name],
         !.Value = row.value]) :
        row \in {r \in obsRows : r.id = id},
        prow \in {r \in paths : \E o \in obsRows : o.id = id /\ r.id = o.path_id},
        crow \in {r \in conditions : \E o \in obsRows : o.id = id /\ r.id = o.condition_id},
        zone \in ZoneOffsets}

\* goroutine k calls InsertOnce on a new Condition{Name: name}
CondCall(k, name) ==
    /\ cio[k].pc \in {"idle", "done"}
    /\ cio' = [cio EXCEPT ![k] = [pc |-> "select", c |-> [ID |-> 0, Name |-> name]]]
    /\ UNCHANGED <<seq, paths, conditions, condSeq, setRows, setSeq, obsRows, obsSeq,
                   setObjs, posted>>
    /\ UNCHANGED notObs

\* Condition.InsertOnce, the select of SelectOrInsert: the id of a row with
\* the name, when there is one
CondSelect(k) ==
    /\ cio[k].pc = "select"
    /\ LET matches == {r \in conditions : r.name = cio[k].c.Name}
       IN  IF cio[k].c.ID # 0
           THEN cio' = [cio EXCEPT ![k].pc = "done"]
           ELSE IF matches = {}
           THEN cio' = [cio EXCEPT ![k].pc = "insert"]
           ELSE \E r \in matches :
                    cio' = [cio EXCEPT ![k].pc = "done", ![k].c.ID = r.id]
    /\ UNCHANGED <<seq, paths, conditions, condSeq, setRows, setSeq, obsRows, obsSeq,
                   setObjs, posted>>
    /\ UNCHANGED notObs

\* Condition.InsertOnce, the insert of SelectOrInsert after a select that
\* found no row: the table has no constraint the new row could violate
CondInsert(k) ==
    /\ cio[k].pc = "insert"
    /\ condSeq < MaxCondRows
    /\ conditions' = conditions \cup {[id |-> condSeq + 1, name |-> cio[k].c.Name]}
    /\ condSeq' = condSeq + 1
    /\ cio' = [cio EXCEPT ![k].pc = "done", ![k].c.ID = condSeq + 1]
    /\ UNCHANGED <<seq, paths, setRows, setSeq, obsRows, obsSeq, setObjs, posted>>
    /\ UNCHANGED notObs

ObsNext ==
    \/ \E i \in SetObjIds, force \in BOOLEAN : SetInsert(i, force)
    \/ \E i \in SetObjIds, line \in WireLines : InsertInSet(i, line)
    \/ \E i \in SetObjIds : CountObservations(i)

\* concurrent calls of Condition.InsertOnce, for two names
CondNames == ObsCondNames \cup {<<"cNew">>}
CondNext ==
    \/ \E k \in CondCallers, name \in CondNames : CondCall(k, name)
    \/ \E k \in CondCallers : CondSelect(k)
    \/ \E k \in CondCallers : CondInsert(k)

\* a fresh database, an empty cache per process, nothing encoded yet
Init == PathInit /\ CodecIdle /\ ObsInit /\ SetIdle /\ MetaIdle /\ RawInit

\* as Init, with the observations to encode chosen
InitCodec == CodecInit /\ PathInit /\ ObsInit /\ SetIdle /\ MetaIdle /\ RawInit

\* as Init, with the observation set in memory chosen
InitSet == SetInit /\ PathInit /\ CodecIdle /\ ObsInit /\ MetaIdle /\ RawInit

\* as Init, with the metadata record in memory chosen
InitMeta == MetaInit /\ PathInit /\ CodecIdle /\ ObsInit /\ SetIdle /\ RawInit

SpecPaths == Init /\ [][PathNext]_vars

SpecCodec == InitCodec /\ [][CodecNext]_vars

SpecObs == Init /\ [][ObsNext]_vars
SpecCond == Init /\ [][CondNext]_vars

SpecSet == InitSet /\ [][SetNext]_vars

SpecMeta == InitMeta /\ [][MetaNext]_vars

SpecRaw == Init /\ [][RawNext]_vars

SpecTraverse == Init /\ [][TraverseNext]_vars
InitReload == ReloadInit /\ PathInit /\ CodecIdle /\ ObsInit /\ SetIdle /\ MetaIdle
SpecReload == InitReload /\ [][ReloadNext]_vars
SpecPuts == Init /\ [][PutsNext]_vars
InitStore == StoreInit /\ PathInit /\ CodecIdle /\ ObsInit /\ SetIdle /\ MetaIdle
SpecStore == InitStore /\ [][StoreNext]_vars

(***************************************************************************)
(* Properties of CacheNewPaths.                                            *)
(***************************************************************************)
CallIds == 1..MaxCalls
Reserved(k) == calls[k].seqAfter > 0
Returned(k) == calls[k].cpc = "returned"
Spawned(k) == calls[k].ppc # "none"
AssignedIds(k) == {a[1] : a \in calls[k].assigned}
AssignedStrings(k) == {a[2] : a \in calls[k].assigned}
LoadedStrings(k) == {r.string : r \in calls[k].loaded}
\* the goroutine waits to send on a full channel nobody will receive from
ProducerStuck(k) ==
    /\ calls[k].ppc \in {"senderr", "sendnil"}
    /\ Len(calls[k].streamerr) >= StreamErrCap
    /\ Returned(k)

\* C1: a call whose filtered candidate set has size N advances the sequence
\* by exactly N, the ids it assigns are fresh and mutually distinct, and after
\* a successful return each registered string maps, in the cache and in the
\* paths table, to exactly one of them.
C1_ReservesExactlyN ==
    \A k \in CallIds :
        /\ Reserved(k) =>
              calls[k].seqAfter = (calls[k].nv - 1) + Cardinality(calls[k].pathSet)
        /\ \A j \in CallIds : j # k => AssignedIds(j) \cap AssignedIds(k) = {}
        /\ \A a, b \in calls[k].assigned : a[1] = b[1] => a[2] = b[2]
        /\ (Returned(k) /\ calls[k].ret = "nil") =>
              \A ps \in calls[k].pathSet :
                  /\ cache[calls[k].proc][ps] \in AssignedIds(k)
                  /\ \E r \in paths : r.string = ps /\ r.id \in AssignedIds(k)

\* C2: the blocks of ids that any two calls sharing the sequence assign are
\* disjoint, so no id is assigned to two path strings.
C2_BlocksDisjoint ==
    \A j, k \in CallIds :
        j # k => \A a \in calls[j].assigned, b \in calls[k].assigned : a[1] # b[1]

\* C3: a call made after a successful call of the same process, with a set of
\* strings the earlier call was given, registers nothing: it assigns no id,
\* loads no row and leaves its candidate set empty.
C3_SecondCallRegistersNothing ==
    \A j, k \in CallIds :
        (/\ j < k
         /\ calls[j].proc = calls[k].proc
         /\ calls[j].ret = "nil"
         /\ calls[k].cpc # "idle"
         /\ calls[k].input \subseteq calls[j].input)
        => /\ calls[k].pathSet = {}
           /\ calls[k].assigned = {}
           /\ calls[k].loaded = {}

\* C3 witness: a second call with a non-empty set has returned after a
\* successful first call with the same set.
C3_Witness ==
    \E j, k \in CallIds :
        /\ j < k
        /\ calls[j].proc = calls[k].proc
        /\ calls[j].ret = "nil"
        /\ calls[j].input # {}
        /\ calls[k].input = calls[j].input
        /\ calls[j].loaded # {}
        /\ calls[k].ret = "nil"

\* C4: after a successful return the candidate set is the input minus the
\* strings cached before the call, exactly its strings were added to the cache
\* and to the paths table by the call, and entries cached before keep their ids.
C4_CandidateSetIsWhatWasRegistered ==
    \A k \in CallIds :
        (Returned(k) /\ calls[k].ret = "nil") =>
            /\ calls[k].pathSet = {ps \in calls[k].input : calls[k].cacheBefore[ps] = 0}
            /\ AssignedStrings(k) = calls[k].pathSet
            /\ LoadedStrings(k) = calls[k].pathSet
            /\ \A ps \in PathStrings :
                  calls[k].cacheBefore[ps] > 0 =>
                      cache[calls[k].proc][ps] = calls[k].cacheBefore[ps]

\* C5: on every return path after the goroutine was started the caller has
\* drained the error channel, and the goroutine is not left blocked on it.
C5_ChannelDrainedOnReturn ==
    \A k \in CallIds :
        (Returned(k) /\ Spawned(k)) => (calls[k].drained /\ ~ProducerStuck(k))

\* C6: the result reports the outcome: nil is returned only when all N pairs
\* were handed to the loader without a write error.
C6_NilOnlyWhenAllPairsLoaded ==
    \A k \in CallIds :
        (Returned(k) /\ Spawned(k) /\ calls[k].ret = "nil") =>
            /\ ~calls[k].bufErr
            /\ Len(calls[k].copied) = Cardinality(calls[k].pathSet)

(***************************************************************************)
(* Properties of the codec.                                                *)
(***************************************************************************)
SameInstant(a, b) == a.sec = b.sec
\* equal in the fields the wire shows
SameWireFields(a, b) ==
    /\ SameInstant(a.Start, b.Start)
    /\ SameInstant(a.End, b.End)
    /\ a.Path.String = b.Path.String
    /\ a.Condition.Name = b.Condition.Name
    /\ a.Value = b.Value

\* C7: unmarshalling what MarshalJSON wrote yields an observation equal to the
\* original in set id, start, end, path string, condition name and value; the
\* value is a sixth element exactly when it is not zero.
C7_ObservationRoundTrip ==
    \A i \in 1..Len(rtRes) :
        /\ ~rtRes[i].err
        /\ rtRes[i].obs.SetID = obsdat[i].SetID
        /\ SameWireFields(rtRes[i].obs, obsdat[i])
        /\ (Len(MarshalJSON(obsdat[i])) = 6) <=> (obsdat[i].Value # 0)

\* C9: ReadObservations of what WriteObservations wrote yields as many
\* observations as were written, the i-th equal to the i-th line unmarshalled
\* on its own.
C9_StreamDecodesLineByLine ==
    (cstage = "read" /\ ~readRes.err) =>
        /\ Len(readRes.out) = Len(obsdat)
        /\ \A i \in 1..Len(readRes.out) :
              SameWireFields(readRes.out[i], UnmarshalJSON(wire[i], ZeroObs).obs)

(***************************************************************************)
(* Properties of the observation store.                                    *)
(***************************************************************************)
\* a line in the form MarshalJSON writes: UTC times, and a sixth element only
\* for a value that is a number other than zero
CanonicalLine(line) ==
    /\ \A i \in 2..3 : ~line[i].num /\ line[i].s[Len(line[i].s)] = ZoneTok(0)
    /\ ~line[4].num /\ ~line[5].num
    /\ Len(line) = 5 \/ (Len(line) = 6 /\ line[6].num /\ line[6].n # 0)

\* C8: an observation decoded from a valid wire line, stored with InsertInSet
\* and read back by its id with its path and condition rows, marshals to the
\* input line except for the leading set id.
C8_ReadBackIdenticalToInput ==
    obsSeq > 0 =>
        /\ ReadBack(obsSeq) # {}
        /\ \A out \in ReadBack(obsSeq) : Tail(out) = Tail(posted)

\* C8, amended: the same for a wire line in the form MarshalJSON writes.
C8_ReadBackIdenticalToCanonicalInput ==
    (obsSeq > 0 /\ CanonicalLine(posted)) =>
        /\ ReadBack(obsSeq) # {}
        /\ \A out \in ReadBack(obsSeq) : Tail(out) = Tail(posted)

\* C8 witness: a canonical line with a value was stored after another row
\* with another path and can be read back.
C8_Witness ==
    /\ obsSeq > 1
    /\ CanonicalLine(posted)
    /\ Len(posted) = 6
    /\ Cardinality(paths) > 1
    /\ ReadBack(obsSeq) # {}

\* C10: the count CountObservations reports for a set equals the number of
\* observation rows whose set id is the set's id, also when the count was read
\* before further observations were inserted.
C10_CountEqualsRows ==
    \A i \in SetObjIds : CountResult(setObjs[i]) = CountRows(setObjs[i].ID)

(***************************************************************************)
(* Properties of the observation set codec.                                *)
(***************************************************************************)
\* sources present and analyzer non-empty
ValidSet(set) == ~set.Sources.nil /\ set.Analyzer # <<>>

\* no metadata key of the set is a system key of the encoding
PlainMetadataKeys(set) ==
    \A k \in DOMAIN set.Metadata :
        ~HasPrefix(k, <<"_", "_">>) /\ k # K_sources /\ k # K_analyzer

SameSetFields(a, b) ==
    /\ a.Sources = b.Sources
    /\ a.Analyzer = b.Analyzer
    /\ a.Metadata = b.Metadata

\* C11: decoding the encoding of any valid observation set (sources present,
\* analyzer non-empty) succeeds and gives the same sources, analyzer and
\* extension metadata map as the original
C11_SetRoundTrip ==
    (ostage = "decoded" /\ ValidSet(ofrom))
        => (oerr = "" /\ SameSetFields(oset, ofrom))

\* C11 (amended): the same, for valid sets none of whose metadata keys starts
\* with two underscores or is _sources or _analyzer
C11_SetRoundTripPlainKeys ==
    (ostage = "decoded" /\ ValidSet(ofrom) /\ PlainMetadataKeys(ofrom))
        => (oerr = "" /\ SameSetFields(oset, ofrom))

C11_Witness ==
    /\ ostage = "decoded"
    /\ oerr = ""
    /\ ValidSet(ofrom)
    /\ PlainMetadataKeys(ofrom)
    /\ ofrom.Sources.items # <<>>
    /\ DOMAIN ofrom.Metadata = {K_description, K_conditions}
    /\ ofrom.count # 0

\* C12: decoding an object that lacks _sources or lacks _analyzer fails,
\* whatever the set decoded into held before; and after a successful decoding
\* the metadata map has no key with a __ prefix and the set's id is zero
C12_MandatoryKeysAndIgnoredKeys ==
    ostage \in {"parsed", "decoded"} =>
        /\ (K_sources \notin DOMAIN owire \/ K_analyzer \notin DOMAIN owire)
               => oerr # ""
        /\ oerr = "" =>
               /\ \A k \in DOMAIN oset.Metadata : ~HasPrefix(k, <<"_", "_">>)
               /\ oset.ID = 0

\* an input key that begins with one underscore only and is not mandatory
ReservedKey(k) ==
    /\ HasPrefix(k, <<"_">>)
    /\ ~HasPrefix(k, <<"_", "_">>)
    /\ k # K_sources
    /\ k # K_analyzer

\* C13: after a successful decoding no input key that begins with a single
\* underscore, other than _sources and _analyzer, is in the metadata map or
\* in the encoding of the decoded set
C13_SingleUnderscoreKeysExcluded ==
    (ostage = "parsed" /\ oerr = "") =>
        \A k \in DOMAIN owire :
            ReservedKey(k) =>
                /\ k \notin DOMAIN oset.Metadata
                /\ k \notin DOMAIN SetMarshalJSON(oset)

(***************************************************************************)
(* Properties of the metadata records.                                     *)
(***************************************************************************)
\* the five keys of the model, with the local value, the parent's value and
\* the name of the answer
InheritedKeys == {"filetype", "owner", "timeStart", "timeEnd", "ext"}
LocalValue(md, key) ==
    IF key = "filetype" THEN md.filetype
    ELSE IF key = "owner" THEN md.owner
    ELSE IF key = "timeStart" THEN md.timeStart
    ELSE IF key = "timeEnd" THEN md.timeEnd
    ELSE MapGet(md.Metadata, K_ext)
WireKey(key) ==
    IF key = "filetype" THEN K_file_type
    ELSE IF key = "owner" THEN K_owner
    ELSE IF key = "timeStart" THEN K_time_start
    ELSE IF key = "timeEnd" THEN K_time_end
    ELSE K_ext
\* the text a value has in the encoded record
WireText(key, v) ==
    IF key \in {"timeStart", "timeEnd"} THEN FormatRFC3339(v[1]) ELSE v

\* C14: for a file record with a campaign record as parent and each of
\* owner, file_type, time_start, time_end and an extension key: an absent
\* local value is answered with the parent's value under inherit=true and
\* with absent under inherit=false; a present local value is answered as it
\* is in both cases, and the encoded record has the key, with the local value
C14_InheritanceLocalWins ==
    (mstage # "new" /\ mdrec.Parent # <<>>) =>
        \A key \in InheritedKeys :
            IF LocalValue(mdrec, key) = <<>>
            THEN /\ manswer[TRUE][key] = LocalValue(mdrec.Parent[1], key)
                 /\ manswer[FALSE][key] = <<>>
            ELSE /\ manswer[TRUE][key] = LocalValue(mdrec, key)
                 /\ manswer[FALSE][key] = LocalValue(mdrec, key)
                 /\ mstage \in {"dumpedAll", "dumpedLocal"} =>
                        /\ WireKey(key) \in DOMAIN mdump
                        /\ mdump[WireKey(key)] =
                               JScalar(JStr(WireText(key, LocalValue(mdrec, key))))

C14_Witness ==
    /\ mstage = "dumpedAll"
    /\ mdrec.Parent # <<>>
    /\ mdrec.owner = <<>>
    /\ mdrec.Parent[1].owner # <<>>
    /\ manswer[TRUE].owner = mdrec.Parent[1].owner
    /\ mdrec.timeStart # <<>>
    /\ mdrec.Parent[1].timeStart # <<>>
    /\ K_ext \in DOMAIN mdrec.Metadata
    /\ mdrec.Metadata[K_ext] # <<>>
    /\ K_ext \in DOMAIN mdrec.Parent[1].Metadata

(***************************************************************************)
(* Properties of the raw data store.                                       *)
(***************************************************************************)
\* the cached file records, each with its campaign and file name
CachedFiles ==
    {<<c, name>> \in CampNames \X FileNames :
        c \in DOMAIN campaigns /\ name \in DOMAIN campaigns[c].fileMetadata}
CachedRecord(cn) == campaigns[cn[1]].fileMetadata[cn[2]]
\* a sidecar as a record under the campaign metadata file of its directory
DiskRecord(cn) == RawMetadataFromFile(sidecar[cn].md, <<campFile[cn[1]]>>)

\* the first of owner, file_type, time_start, time_end that neither the
\* record nor its parent has, <<>> when there is none; for a campaign
\* record only owner counts
FirstAbsent(md, isCampaign) ==
    LET has(key) == \/ LocalValue(md, key) # <<>>
                    \/ md.Parent # <<>> /\ LocalValue(md.Parent[1], key) # <<>>
    IN  IF ~has("owner") THEN K_owner
        ELSE IF isCampaign THEN <<>>
        ELSE IF ~has("filetype") THEN K_file_type
        ELSE IF ~has("timeStart") THEN K_time_start
        ELSE IF ~has("timeEnd") THEN K_time_end
        ELSE <<>>

\* the disk and the campaign cache
StoreState == <<dirs, campFile, sidecar, dataFile, campaigns>>

C16_FileRecordsResolveRequiredKeys ==
    /\ \A cn \in CachedFiles :
           /\ TimeStart(CachedRecord(cn), TRUE) # <<>>
           /\ TimeEnd(CachedRecord(cn), TRUE) # <<>>
           /\ Owner(CachedRecord(cn), TRUE) # <<>>
    /\ \A cn \in DOMAIN sidecar :
           /\ TimeStart(DiskRecord(cn), TRUE) # <<>>
           /\ TimeEnd(DiskRecord(cn), TRUE) # <<>>
           /\ Owner(DiskRecord(cn), TRUE) # <<>>

\* C17: when WriteFileDataFromStream returns nil after writing N bytes to a
\* file with a metadata record, the record's data size is N and its creation
\* time is the data file's modification time; and no record's modification
\* time is earlier than its creation time
C17_VirtualMetadataAfterWrite ==
    /\ [][\A w \in Writers :
            (wr[w].pc = "locked" /\ wr'[w].pc = "done" /\ wr'[w].err = NoErr)
                => LET md == campaigns'[wr[w].cam].fileMetadata[wr[w].name]
                   IN  /\ md.datasize = wr[w].n
                       /\ md.creatime = FileTime(dataFile'[wr[w].rawpath].mtime)]_vars
    /\ [](\A cn \in CachedFiles :
             (CachedRecord(cn).modtime # <<>> /\ CachedRecord(cn).creatime # <<>>)
                 => CachedRecord(cn).modtime[1].sec >= CachedRecord(cn).creatime[1].sec)

\* the cached records of files that have a sidecar and no data file
CachedWithoutData ==
    {cn \in CachedFiles :
        /\ cn \in DOMAIN sidecar
        /\ CleanJoin(CamPath(cn[1]), cn[2]) \notin DOMAIN dataFile}

\* C18: a record recomputed for a file with a sidecar and no data file has
\* data size 0 and no creation time
C18_NoDataNoCreationTime ==
    \A cn \in CachedWithoutData :
        /\ CachedRecord(cn).datasize = 0
        /\ CachedRecord(cn).creatime = <<>>

\* C18 (amended): a record recomputed for a file with a sidecar and no data
\* file has data size 0, and its creation time is its modification time,
\* the modification time of the sidecar
C18_NoDataCreationTimeIsSidecarTime ==
    \A cn \in CachedWithoutData :
        /\ CachedRecord(cn).datasize = 0
        /\ CachedRecord(cn).modtime = FileTime(sidecar[cn].mtime)
        /\ CachedRecord(cn).creatime = CachedRecord(cn).modtime

C18_Witness ==
    /\ CachedWithoutData # {}
    /\ clock > 0
    /\ \E cn \in CachedWithoutData : sidecar[cn].mtime > 0

\* path is a file directly in the directory of campaign c
DirectChild(c, path) ==
    /\ Len(path) = Len(CamPath(c)) + 1
    /\ SubSeq(path, 1, Len(CamPath(c))) = CamPath(c)

\* C19: ReadFileData and WriteFileData refuse with an internal error every
\* file name whose cleaned join with the campaign directory is not a direct
\* child of it, and every path they open or create is a direct child of the
\* campaign directory
C19_NoTraversal ==
    /\ \A cp \in opened : DirectChild(cp[1], cp[2])
    /\ (last.op = "ReadFileData"
          /\ ~DirectChild(last.cam, CleanJoin(CamPath(last.cam), last.name)))
           => last.err.kind = "Internal"
    /\ \A w \in Writers :
           (wr[w].pc # "idle" /\ ~DirectChild(wr[w].cam, wr[w].rawpath))
               => (wr[w].pc = "done" /\ wr[w].err.kind = "Internal")

\* writer w has made or truncated the data file
Created(w) ==
    \/ wr[w].pc \in {"copy", "update", "locked"}
    \/ wr[w].pc = "done" /\ wr[w].err.kind \notin {"Exists", "Internal"}

\* C20: a write with force=false never creates over an existing data file,
\* and of two writes with force=false to one file name at most one creates
\* the file
C20_NoReplaceWithoutForce ==
    /\ [][\A w \in Writers :
            (wr[w].pc = "create" /\ wr'[w].pc = "copy" /\ ~wr[w].force)
                => wr[w].rawpath \notin DOMAIN dataFile]_vars
    /\ [](\A w1, w2 \in Writers :
             (/\ w1 # w2
              /\ ~wr[w1].force
              /\ ~wr[w2].force
              /\ wr[w1].rawpath = wr[w2].rawpath)
                 => ~(Created(w1) /\ Created(w2)))

(***************************************************************************)
(* Properties of a campaign under concurrent callers.                      *)
(***************************************************************************)
\* the cached state of a campaign: both caches and the stale flag
Caches(cam) == <<cam.campaignMetadata, cam.fileMetadata, cam.isnil, cam.stale>>

\* goroutine t returns from reloadMetadata in this step
ReloadReturns(t) == th[t].pc = "reloading" /\ th'[t].pc # "reloading"

\* unloadMetadata freed the caches of the loaded campaign c, and the files
\* of c on disk are still the readable ones its caches were loaded from
UnloadedIntact(c) ==
    /\ campaigns[c].isnil
    /\ unl.loaded
    /\ unl.campaignMetadata # <<>>
    /\ c \in DOMAIN campFile
    /\ campFile[c] = Persisted(unl.campaignMetadata[1])
    /\ \A name \in {StoredName, SecondName} :
           /\ <<c, name>> \in DOMAIN sidecar <=> name \in unl.names
           /\ <<c, name>> \in DOMAIN sidecar => sidecar[<<c, name>>].md # NotJSON

\* C21: after unloadMetadata the campaign is stale with both caches freed,
\* and the reload made by the next access ends without failure and leaves the
\* campaign loaded, with the campaign record and the file names it had
\* before the unload, whatever the number of sidecars on disk
C21_ReloadAfterUnload ==
    /\ [][\A t \in Goroutines :
            (th[t].op = "unloadMetadata" /\ th[t].pc = "locked" /\ th'[t].pc = "done")
                => /\ campaigns'[th[t].cam].stale
                   /\ campaigns'[th[t].cam].isnil
                   /\ campaigns'[th[t].cam].campaignMetadata = <<>>
                   /\ campaigns'[th[t].cam].fileMetadata = EmptyMap]_vars
    /\ [][\A t \in Goroutines :
            (ReloadReturns(t) /\ UnloadedIntact(th[t].cam))
                => /\ th'[t].err = NoErr
                   /\ ~campaigns'[th[t].cam].stale
                   /\ campaigns'[th[t].cam].campaignMetadata # <<>>
                   /\ Persisted(campaigns'[th[t].cam].campaignMetadata[1])
                          = Persisted(unl.campaignMetadata[1])
                   /\ DOMAIN campaigns'[th[t].cam].fileMetadata = unl.names]_vars

\* C22: a reload that returns an error leaves both caches and the stale flag
\* as they were, and a reload of a campaign that is not stale changes nothing
C22_ReloadAllOrNothing ==
    [][\A t \in Goroutines :
          ReloadReturns(t)
              => LET before == campaigns[th[t].cam]
                     after == campaigns'[th[t].cam]
                 IN  /\ th'[t].err # NoErr => Caches(after) = Caches(before)
                     /\ ~before.stale
                            => (th'[t].err = NoErr /\ Caches(after) = Caches(before))
                     /\ Caches(after) # Caches(before)
                            => (th'[t].err = NoErr /\ ~after.stale)]_vars

\* C23: in a loaded campaign the parent of every cached file record is the
\* cached campaign record
C23_ParentIsCurrentCampaignRecord ==
    \A c \in DOMAIN campaigns :
        ~campaigns[c].stale
            => \A name \in DOMAIN campaigns[c].fileMetadata :
                   campaigns[c].fileMetadata[name] # NilRecord
                       => campaigns[c].fileMetadata[name].Parent
                              = campaigns[c].campaignMetadata

\* C25: GetCampaignMetadata, GetFileMetadata, GetFiletype and FileNames read
\* the caches while they hold the campaign's lock, so never while another
\* goroutine holds it for writing
C25_ReadsHoldTheLock ==
    [][\A t \in Goroutines :
          (th[t].pc \in {"read", "rlocked"} /\ th'[t].pc = "done")
              => LET lock == campaigns[th[t].cam].lock
                 IN  /\ Holder(t) \in lock.r \/ lock.w = Holder(t)
                     /\ lock.w \in {<<>>, Holder(t)}]_vars

\* no PutCampaignMetadata or PutFileMetadata is between its Lock and Unlock
PutsCompleted ==
    /\ \A t \in Goroutines : th[t].pc \notin {"locked", "written"}
    /\ \A c \in DOMAIN campaigns : campaigns[c].lock.w \notin {Holder(t) : t \in Goroutines}

\* C26: a put writes its file and updates the cache holding the exclusive
\* lock of the campaign, and once the concurrent puts have completed the
\* cached campaign record and every cached file record equal, in their local
\* fields, the record in the corresponding file on disk
C26_PutsLinearized ==
    /\ [](PutsCompleted
            => \A c \in DOMAIN campaigns :
                   ~campaigns[c].stale
                       => /\ campaigns[c].campaignMetadata # <<>>
                          /\ Persisted(campaigns[c].campaignMetadata[1]) = campFile[c]
                          /\ \A name \in DOMAIN campaigns[c].fileMetadata :
                                 /\ <<c, name>> \in DOMAIN sidecar
                                 /\ Persisted(campaigns[c].fileMetadata[name])
                                        = sidecar[<<c, name>>].md)
    /\ [][\A t \in Goroutines :
            (/\ th[t].op \in {"PutCampaignMetadata", "PutFileMetadata"}
             /\ th[t].pc \in {"locked", "written"}
             /\ th'[t] # th[t])
                => /\ campaigns[th[t].cam].lock.w = Holder(t)
                   /\ \A u \in Goroutines \ {t} : th[u].pc \notin {"locked", "written"}]_vars

\* two concurrent PutFileMetadata calls with different records for one file
\* name have both returned nil
C26_Witness ==
    /\ PutsCompleted
    /\ \A t \in Goroutines :
           /\ th[t].op = "PutFileMetadata"
           /\ th[t].pc = "done"
           /\ th[t].err = NoErr
    /\ th["g1"].md # th["g2"].md

\* C27: while WriteFileDataFromStream opens, creates and copies it does not
\* hold the campaign's lock, which it holds only for the recomputation after
\* the copy; so a reader that wants the lock during a copy gets it unless
\* another metadata call holds it
C27_NoLockWhileCopying ==
    \A w \in Writers :
        wr[w].pc # "idle"
            => LET lock == campaigns[wr[w].cam].lock
               IN  /\ lock.w = <<"w", w>> <=> wr[w].pc = "locked"
                   /\ \A t \in Goroutines :
                          (/\ wr[w].pc = "copy"
                           /\ th[t].pc = "rlock"
                           /\ th[t].cam = wr[w].cam
                           /\ lock.w \notin {Holder(u) : u \in Goroutines}
                           /\ lock.w \notin {<<"w", v>> : v \in Writers \ {w}})
                              => CanRLock(lock)

\* FileNames holds the read lock of the campaign while a copy of a data file
\* of that campaign is in progress
C27_Witness ==
    /\ wr[1].pc = "copy"
    /\ \E t \in Goroutines :
           /\ th[t].op = "FileNames"
           /\ th[t].pc = "rlocked"
           /\ th[t].cam = wr[1].cam
           /\ Holder(t) \in campaigns[wr[1].cam].lock.r

(***************************************************************************)
(* Properties of the campaign cache of the store.                          *)
(***************************************************************************)
\* goroutine t returns from newCampaign's validation and Stat in this step
CreateStatReturns(t) ==
    th[t].op = "CreateCampaign" /\ th[t].pc = "new" /\ th'[t].pc # "new"

\* a CreateCampaign that returned nil has its campaign in the cache, the
\* cache never loses a name, and CampaignForName fails with NotFound exactly
\* for the names that are not in it
RegisteredAndFound ==
    /\ [](\A t \in Goroutines :
             (th[t].op = "CreateCampaign" /\ th[t].pc = "done" /\ th[t].err = NoErr)
                 => th[t].cam \in DOMAIN campaigns)
    /\ [][DOMAIN campaigns \subseteq DOMAIN campaigns']_vars
    /\ [](DOMAIN campaigns \subseteq Scanned)
    /\ [][\A t \in Goroutines :
            (th[t].pc = "lookup" /\ th'[t].pc = "done")
                => (th'[t].err.kind = "NotFound" <=> th[t].cam \notin DOMAIN campaigns)]_vars

HoldsRds(t) == rdsLock.w = Holder(t) \/ Holder(t) \in rdsLock.r
HoldsCam(t) ==
    \/ \E c \in DOMAIN campaigns :
           campaigns[c].lock.w = Holder(t) \/ Holder(t) \in campaigns[c].lock.r
    \/ th[t].own # <<>> /\ th[t].own[1].lock.w = Holder(t)
InFlight(t) == th[t].pc \notin {"idle", "done"}
\* goroutine t cannot take its next step
Waiting(t) ==
    \/ th[t].pc = "rdslock" /\ ~CanLock(rdsLock)
    \/ th[t].pc = "rdsrlock" /\ ~CanRLock(rdsLock)
    \/ th[t].pc = "putlock" /\ ~CanLock(th[t].own[1].lock)
    \/ th[t].pc = "reload" /\ ~CanLock(campaigns[th[t].cam].lock)
    \/ th[t].pc = "scan" /\ \E u \in Goroutines : InCampaignCall(u)

NewestRow(rows, id) == CHOOSE r \in rows : r.id = id

\* C29: every observation row refers to an existing path row, condition row
\* and set row, those of the newest row being the path and the condition
\* decoded from the posted line; and InsertInSet leaves a set that has an id
\* as it is, with no new set row, and inserts a set without id exactly once
C29_InsertInSetReferences ==
    /\ [](\A o \in obsRows :
             /\ \E r \in paths : r.id = o.path_id
             /\ \E r \in conditions : r.id = o.condition_id
             /\ \E r \in setRows : r.id = o.set_id)
    /\ [](obsSeq > 0
            => LET o == NewestRow(obsRows, obsSeq)
                   dec == DecodedLine[posted].obs
               IN  /\ \A r \in paths : r.id = o.path_id => r.string = dec.Path.String
                   /\ \A r \in conditions :
                          r.id = o.condition_id => r.name = dec.Condition.Name)
    /\ [][obsSeq' = obsSeq + 1
            => \E i \in SetObjIds :
                   /\ NewestRow(obsRows', obsSeq').set_id = setObjs'[i].ID
                   /\ \A j \in SetObjIds \ {i} : setObjs'[j] = setObjs[j]
                   /\ setObjs[i].ID # 0
                          => (setObjs'[i].ID = setObjs[i].ID /\ setRows' = setRows)
                   /\ setObjs[i].ID = 0
                          => /\ setObjs'[i].ID # 0
                             /\ [id |-> setObjs'[i].ID] \notin setRows
                             /\ setRows' = setRows \cup {[id |-> setObjs'[i].ID]}]_vars

\* two observations were inserted in one set: the second InsertInSet found
\* the set with the id the first had given it
C29_Witness ==
    \E i \in SetObjIds :
        /\ setObjs[i].ID # 0
        /\ Cardinality({o \in obsRows : o.set_id = setObjs[i].ID}) = 2

\* C30: the conditions table holds at most one row per name, and the callers
\* of Condition.InsertOnce for one name have all got the same id
C30_OneConditionPerName ==
    /\ \A r1, r2 \in conditions : r1.name = r2.name => r1.id = r2.id
    /\ \A k1, k2 \in CondCallers :
           (/\ cio[k1].pc = "done"
            /\ cio[k2].pc = "done"
            /\ cio[k1].c.Name = cio[k2].c.Name)
               => cio[k1].c.ID = cio[k2].c.ID

(***************************************************************************)
(* Properties of the path cache against the paths table.                   *)
(***************************************************************************)
\* the row of string ps under the id the cache of process p holds for it
RowLoaded(p, ps) == \E r \in paths : r.id = cache[p][ps] /\ r.string = ps

\* C31: whenever a call has returned, with or without an error, every entry
\* of the caller's path cache maps its string to an id under which a row of
\* that string is in the paths table.
C31_CacheEntriesArePersisted ==
    \A k \in CallIds :
        Returned(k) =>
            \A ps \in PathStrings :
                cache[calls[k].proc][ps] > 0 => RowLoaded(calls[k].proc, ps)

(***************************************************************************)
(* Termination of CacheNewPaths.  The caller, the goroutine and the        *)
(* database's COPY each take the step they are at when it stays possible;  *)
(* a failure of the COPY statement (CopyFail) is never owed.               *)
(***************************************************************************)
CallerFair == \A k \in CallIds : WF_vars(Nextval(k) \/ Setval(k) \/ Pipe(k) \/ Recv(k))
ProducerFair ==
    \A k \in CallIds :
        WF_vars(ProdAssign(k) \/ ProdWrite(k) \/ ProdSendErr(k) \/ ProdFlush(k) \/ ProdSendNil(k))
LoaderFair == \A k \in CallIds : WF_vars(CopyRead(k) \/ CopyEnd(k))
SpecPathsFair == Init /\ [][PathNext]_vars /\ CallerFair /\ ProducerFair /\ LoaderFair

\* the goroutine waits to send on the full error channel while the caller is
\* inside db.CopyFrom, which waits for the end of input that only the
\* goroutine's deferred pathpipe.Close() gives
BlockedWhileCopying(k) ==
    /\ calls[k].cpc = "copy"
    /\ calls[k].ppc \in {"senderr", "sendnil"}
    /\ Len(calls[k].streamerr) >= StreamErrCap

\* C32: under fair scheduling of the caller, the goroutine and the bulk
\* loader, every call that was entered eventually returns, also when writes
\* of the goroutine fail.
C32_EveryCallReturns ==
    \A k \in CallIds : (calls[k].cpc # "idle") ~> Returned(k)

(***************************************************************************)
(* Properties of the operations of a campaign between their reload and     *)
(* their access to the caches.                                             *)
(***************************************************************************)
\* goroutine t makes the unlocked read of op in this step
ReadsAs(t, op) == th[t].op = op /\ th[t].pc = "read" /\ th'[t].pc = "done"

\* another goroutine has written the sidecar of name and not yet the map
PutUnderWay(c, name) ==
    \E u \in Goroutines :
        /\ th[u].op = "PutFileMetadata"
        /\ th[u].pc = "written"
        /\ th[u].cam = c
        /\ th[u].name = name

\* GetCampaignMetadata returns a record whenever it returns no error
ReadsARecord(t) ==
    (ReadsAs(t, "GetCampaignMetadata") /\ th'[t].err = NoErr)
        => campaigns[th[t].cam].campaignMetadata # <<>>

\* GetFileMetadata reports NotFound only for a file without sidecar on disk
NotFoundIsAbsent(t) ==
    (/\ ReadsAs(t, "GetFileMetadata")
     /\ th'[t].err = Err("NotFound", th[t].name)
     /\ ~PutUnderWay(th[t].cam, th[t].name))
        => <<th[t].cam, th[t].name>> \notin DOMAIN sidecar

\* PutFileMetadata sets a parent that is a record, and assigns into a map
\* that was made
PutsIntoLoaded(t) ==
    /\ (th[t].op = "PutFileMetadata" /\ th[t].pc = "locked" /\ th'[t].pc # "locked")
           => campaigns[th[t].cam].campaignMetadata # <<>>
    /\ (th[t].op = "PutFileMetadata" /\ th[t].pc = "written" /\ th'[t].pc = "done")
           => ~campaigns[th[t].cam].isnil

\* C33: an operation that has passed its reload step acts on loaded caches,
\* whatever unloadMetadata does meanwhile: GetCampaignMetadata returns no nil
\* record with a nil error, GetFileMetadata reports no NotFound for a file
\* whose sidecar is on disk, and PutFileMetadata sets no nil parent and
\* writes into no freed map.
C33_ActsOnLoadedCaches ==
    [][\A t \in Goroutines :
          ReadsARecord(t) /\ NotFoundIsAbsent(t) /\ PutsIntoLoaded(t)]_vars

============================================================================
